---------------------------- MODULE Spec2Model ----------------------------
(***************************************************************************)
(* Browser-automation agent (servers/agents, browser_agent): the           *)
(* perception / decision / execution loop over AgentState, with the        *)
(* interrupt/resume hand-off of client-side tools.                         *)
(*                                                                         *)
(* Python dicts (node updates, tool args, interrupt and resume payloads)   *)
(* are functions over string keys; the empty dict is <<>>.                 *)
(***************************************************************************)
EXTENDS Integers, Sequences, FiniteSets, TLC

(* ------------------------------ bounds -------------------------------- *)

\* proposals carrying tool requests per task execution
MaxTurns == 2
\* tool requests per proposal
MaxCalls == 2
\* elements in a list handed to the listing
MaxElements == 2
\* threads that call into the element detector of one process
MaxThreads == 2
\* tasks ever created in the task collection
MaxTasks == 3
\* update_task requests served at the same time
MaxRequests == 2
\* data sources ever created in the data source collection
MaxDataSources == 2

(* --------------------------- values and inputs ------------------------ *)

\* Python None in a `str | None` field
None == "None"
\* Python None in a `Viewport | None` field
NoViewport == <<>>
\* langgraph END
END == "__end__"

\* collect_data left out of the set
SERVER_SIDE_TOOLS_without_collect == {"load_skill"}

SERVER_SIDE_TOOLS == {"load_skill", "collect_data"}

\* skill names, as the sequences of their characters
WHATSAPP_WEB == <<"w", "h", "a", "t", "s", "a", "p", "p", "-", "w", "e", "b">>
LINKEDIN_AUTOMATION == <<"l", "i", "n", "k", "e", "d", "i", "n", "-", "a", "u", "t", "o", "m", "a", "t", "i", "o", "n">>
GMAIL == <<"g", "m", "a", "i", "l">>

\* the *.skill.prompt.md files of prompts/skills, in the order the
\* directory happens to list them
list_skills == <<WHATSAPP_WEB, LINKEDIN_AUTOMATION>>

\* skills present in prompts/skills
AvailableSkills == {list_skills[i] : i \in 1..Len(list_skills)}

\* first tool request of a proposal, as the LLM may produce it: a known and
\* an unknown ("zoom" is outside the tool table) client-side name, and the
\* server-side tools with and without the args their schemas require
FirstCalls ==
    { [name |-> "click",        args |-> [x |-> 50, y |-> 50]],
      [name |-> "zoom",         args |-> [level |-> 2]],
      [name |-> "load_skill",   args |-> [skill_name |-> WHATSAPP_WEB]],
      [name |-> "load_skill",   args |-> <<>>],
      [name |-> "collect_data", args |-> [data |-> <<"row">>]] }

\* tool requests that may follow the first one in the same proposal
FollowerCalls == {[name |-> "click", args |-> [x |-> 0, y |-> 100]]}

\* text of a proposal without / with tool requests
Texts == {"", "done"}
ToolTexts == {""}

VP_A == [width |-> 1280, height |-> 800]
VP_B == [width |-> 1920, height |-> 1080]

\* resume values sent by the browser-side executor
ResumeValues ==
    { [result |-> "ok"] @@ s @@ v :
        s \in {<<>>, [screenshot |-> ""], [screenshot |-> "B"]},
        v \in {<<>>, [viewport |-> VP_B]} }
    \cup {[result |-> "Error: element not found"]}

\* no resume value is pending for the interrupt() call
NoResume == [pending |-> FALSE]

\* dict.get(key) with None as default
Get(d, k, default) == IF k \in DOMAIN d THEN d[k] ELSE default

\* outcome of running a node: it returns an update, raises, or interrupts
Return(u)    == [kind |-> "return", update |-> u]
Raise        == [kind |-> "raise"]
Interrupt(v) == [kind |-> "interrupt", value |-> v]

\* outcome of a function call that returns a value
Value(v) == [kind |-> "return", value |-> v]

\* the screenshots a client may send: two pages with elements, a blank
\* page, and strings that do not decode to an image (bad base64, base64 of
\* bytes that are no image, a data URL without its comma)
Screenshots == {"A", "B", "E", "", "!!", "Y29ycnVwdA==", "data:"}

\* contents of OMNIPARSER_WEIGHTS_DIR
WeightSets ==
    {{}, {"icon_detect"}, {"icon_detect", "icon_caption_florence"}}
AllWeights == {"icon_detect", "icon_caption_florence"}

\* a viewport reported with a dimension of zero
VP_W0 == [width |-> 0, height |-> 800]
VP_H0 == [width |-> 1280, height |-> 0]

(* ------------------------------ state --------------------------------- *)

VARIABLES
    messages,            \* AgentState.messages
    current_screenshot,  \* AgentState.current_screenshot
    viewport,            \* AgentState.viewport
    detected_elements,   \* AgentState.detected_elements
    pc,                  \* node the graph runs next; "interrupted", "error", END
    update,              \* the partial update returned by the last node
    interrupts,          \* interrupt payloads handed to the client so far
    resumed,             \* the resume value the last step consumed, if any
    ELEMENT_DETECTION_ENABLED,  \* feature flag of element_detection_node.py
    weights_dir,         \* entries present under OMNIPARSER_WEIGHTS_DIR
    _instance,           \* ElementDetector._instance: NoInstance or a reference
    detectors,           \* the ElementDetector objects created, by reference
    loads,               \* how often a detection model has been loaded
    detector_calls,      \* the calls of the detector made by the last step
    sent_prompt,         \* content of the SystemMessage of the last model.invoke
    call,                \* a function called on its own, with its arguments
    ret,                 \* the outcome of that call
    iteration_start,     \* the AgentState the current iteration began with
    threads,             \* threads inside detect_elements_from_screenshot
    tasks,               \* the task collection of the API server
    datasources          \* the data source collection of the API server

vars == <<messages, current_screenshot, viewport, detected_elements,
          pc, update, interrupts, resumed,
          ELEMENT_DETECTION_ENABLED, weights_dir, _instance, detectors, loads,
          detector_calls, sent_prompt, call, ret, iteration_start, threads,
          tasks, datasources>>

AgentState ==
    [messages |-> messages, current_screenshot |-> current_screenshot,
     viewport |-> viewport, detected_elements |-> detected_elements]

(* ------------------------------- text --------------------------------- *)

\* a str the code inspects character by character is the sequence of its
\* characters
UPPERCASE == <<"A", "B", "C", "D", "E", "F", "G", "H", "I", "J", "K", "L", "M",
               "N", "O", "P", "Q", "R", "S", "T", "U", "V", "W", "X", "Y", "Z">>
LOWERCASE == <<"a", "b", "c", "d", "e", "f", "g", "h", "i", "j", "k", "l", "m",
               "n", "o", "p", "q", "r", "s", "t", "u", "v", "w", "x", "y", "z">>

IsUpper(c) == \E i \in 1..Len(UPPERCASE) : UPPERCASE[i] = c
IsLower(c) == \E i \in 1..Len(LOWERCASE) : LOWERCASE[i] = c

ToLower(c) ==
    IF IsUpper(c) THEN LOWERCASE[CHOOSE i \in 1..Len(UPPERCASE) : UPPERCASE[i] = c]
    ELSE c
ToUpper(c) ==
    IF IsLower(c) THEN UPPERCASE[CHOOSE i \in 1..Len(LOWERCASE) : LOWERCASE[i] = c]
    ELSE c

\* str.lower()
lower(str) == [i \in 1..Len(str) |-> ToLower(str[i])]

\* str.title(): a cased character is upper-cased after an uncased one (or at
\* the start) and lower-cased after a cased one
title(str) ==
    [i \in 1..Len(str) |->
        IF i = 1 \/ ~(IsUpper(str[i - 1]) \/ IsLower(str[i - 1]))
        THEN ToUpper(str[i])
        ELSE ToLower(str[i])]

\* word in str
in_(word, str) ==
    \E i \in 1..(Len(str) - Len(word) + 1) :
        SubSeq(str, i, i + Len(word) - 1) = word

\* the characters of skill names in code point order
CODE_POINT_ORDER ==
    <<"-", "0", "1", "2", "3", "4", "5", "6", "7", "8", "9">> \o UPPERCASE
    \o <<"_">> \o LOWERCASE

\* the rank of a character in code point order
ord(c) == CHOOSE i \in 1..Len(CODE_POINT_ORDER) : CODE_POINT_ORDER[i] = c

\* a < b on strs: the first differing character decides, a prefix is less
RECURSIVE StrLess(_, _)
StrLess(a, b) ==
    IF b = <<>> THEN FALSE
    ELSE IF a = <<>> THEN TRUE
    ELSE IF ord(Head(a)) < ord(Head(b)) THEN TRUE
    ELSE IF ord(Head(a)) > ord(Head(b)) THEN FALSE
    ELSE StrLess(Tail(a), Tail(b))

\* sorted(list) of strs
RECURSIVE sorted(_)
sorted(list) ==
    IF list = <<>> THEN <<>>
    ELSE LET least == CHOOSE i \in 1..Len(list) :
                          \A j \in 1..Len(list) : ~StrLess(list[j], list[i])
         IN  <<list[least]>>
             \o sorted(SubSeq(list, 1, least - 1) \o SubSeq(list, least + 1, Len(list)))

\* ", ".join(list): the pieces of one line
RECURSIVE JoinComma(_)
JoinComma(list) ==
    IF list = <<>> THEN <<>>
    ELSE IF Len(list) = 1 THEN <<list[1]>>
    ELSE <<list[1], ", ">> \o JoinComma(Tail(list))

DIGITS == <<"0", "1", "2", "3", "4", "5", "6", "7", "8", "9">>

\* str(n) for n >= 0
RECURSIVE str(_)
str(n) == IF n < 10 THEN <<DIGITS[n + 1]>>
          ELSE Append(str(n \div 10), DIGITS[(n % 10) + 1])

\* a str the code builds from lines is the sequence of its lines, and a line
\* the sequence of the pieces it is put together from; "" is one empty line
EmptyStr == << <<>> >>

\* a + b
Concat(a, b) ==
    SubSeq(a, 1, Len(a) - 1) \o <<a[Len(a)] \o b[1]>> \o Tail(b)

\* "\n".join(lines) of single-line strs
JoinLines(lines) == IF lines = <<>> THEN EmptyStr ELSE lines

\* "\n\n"
TwoNewlines == << <<>>, <<>>, <<>> >>

(* ------------------------- float arithmetic --------------------------- *)

\* x / w and q * 100 are IEEE-754 binary64 operations, each rounded to
\* nearest, ties to even.  A positive float is its significand m, a sequence
\* of MantissaBits bits with the most significant first, and the number p of
\* those bits that stand before the binary point.
MantissaBits == 53

RECURSIVE Bits(_)
Bits(n) == IF n = 0 THEN <<>> ELSE Append(Bits(n \div 2), n % 2)

RECURSIVE BitsValue(_)
BitsValue(bs) ==
    IF bs = <<>> THEN 0
    ELSE 2 * BitsValue(SubSeq(bs, 1, Len(bs) - 1)) + bs[Len(bs)]

Zeros(n) == [i \in 1..n |-> 0]

\* bs + 1: the last 0 becomes 1 and the 1s after it become 0
BitsInc(bs) ==
    LET zeros == {i \in 1..Len(bs) : bs[i] = 0}
    IN  IF zeros = {} THEN <<1>> \o Zeros(Len(bs))
        ELSE LET k == CHOOSE i \in zeros : \A j \in zeros : j <= i
             IN  [i \in 1..Len(bs) |->
                    IF i < k THEN bs[i] ELSE IF i = k THEN 1 ELSE 0]

\* the k low bits of n
FixedBits(n, k) == [i \in 1..k |-> (n \div (2 ^ (k - i))) % 2]

\* round to nearest, ties to even, on the first dropped bit and the rest
RoundHalfEven(m, guard, sticky) ==
    IF guard = 1 /\ (sticky \/ m[Len(m)] = 1)
    THEN LET up == BitsInc(m)
         IN  IF Len(up) > Len(m)
             THEN [m |-> SubSeq(up, 1, Len(m)), carry |-> 1]
             ELSE [m |-> up, carry |-> 0]
    ELSE [m |-> m, carry |-> 0]

\* long division: the significand is extended by the bits of r / w
RECURSIVE DivBits(_, _, _, _)
DivBits(m, p, r, w) ==
    IF Len(m) = MantissaBits THEN [m |-> m, p |-> p, r |-> r]
    ELSE LET bit == IF 2 * r >= w THEN 1 ELSE 0
             rem == 2 * r - w * bit
         IN  IF m = <<>> /\ bit = 0
             THEN DivBits(m, p - 1, rem, w)
             ELSE DivBits(Append(m, bit), p, rem, w)

\* x / w for integers x > 0, w > 0
FloatDiv(x, w) ==
    LET whole == Bits(x \div w)
        d     == DivBits(whole, Len(whole), x % w, w)
        guard == IF 2 * d.r >= w THEN 1 ELSE 0
        rest  == 2 * d.r - w * guard
        r     == RoundHalfEven(d.m, guard, rest # 0)
    IN  [m |-> r.m, p |-> d.p + r.carry]

\* f * 100: the significand is multiplied in three limbs of at most
\* LimbBits bits, then rounded back to MantissaBits bits
LimbBits == 18

FloatMul100(f) ==
    LET base  == 2 ^ LimbBits
        hi    == BitsValue(SubSeq(f.m, 1, MantissaBits - 2 * LimbBits))
        mid   == BitsValue(SubSeq(f.m, MantissaBits - 2 * LimbBits + 1,
                                  MantissaBits - LimbBits))
        lo    == BitsValue(SubSeq(f.m, MantissaBits - LimbBits + 1, MantissaBits))
        plo   == 100 * lo
        pmid  == 100 * mid + (plo \div base)
        phi   == 100 * hi + (pmid \div base)
        prod  == Bits(phi) \o FixedBits(pmid % base, LimbBits)
                           \o FixedBits(plo % base, LimbBits)
        extra == Len(prod) - MantissaBits
        r     == RoundHalfEven(SubSeq(prod, 1, MantissaBits),
                               prod[MantissaBits + 1],
                               \E i \in (MantissaBits + 2)..Len(prod) : prod[i] = 1)
    IN  [m |-> r.m, p |-> f.p + extra + r.carry]

\* int(f): the bits before the binary point
FloatToInt(f) == IF f.p <= 0 THEN 0 ELSE BitsValue(SubSeq(f.m, 1, f.p))

\* int((x / w) * 100) for w # 0; int() truncates toward zero
IntOfPercent(x, w) ==
    LET ax == IF x < 0 THEN -x ELSE x
        aw == IF w < 0 THEN -w ELSE w
        v  == IF x = 0 THEN 0 ELSE FloatToInt(FloatMul100(FloatDiv(ax, aw)))
    IN  IF (x < 0) # (w < 0) THEN -v ELSE v

(* ------------------------- element detection -------------------------- *)

\* the upper limit is not applied
Clamp_lower_only(v) == IF v < 0 THEN 0 ELSE v

\* max(0, min(100, v))
Clamp(v) == IF v < 0 THEN 0 ELSE IF v > 100 THEN 100 ELSE v

\* both axes are divided by the viewport width
_pixel_to_grid_width_only(x, y, viewport_width, viewport_height) ==
    IF viewport_width = 0 \/ viewport_height = 0 THEN Raise
    ELSE Value([x |-> Clamp(IntOfPercent(x, viewport_width)),
                y |-> Clamp(IntOfPercent(y, viewport_width))])

\* a zero dimension raises ZeroDivisionError
_pixel_to_grid(x, y, viewport_width, viewport_height) ==
    IF viewport_width = 0 \/ viewport_height = 0 THEN Raise
    ELSE Value([x |-> Clamp(IntOfPercent(x, viewport_width)),
                y |-> Clamp(IntOfPercent(y, viewport_height))])

BUTTON  == <<"b", "u", "t", "t", "o", "n">>
BTN     == <<"b", "t", "n">>
INPUT   == <<"i", "n", "p", "u", "t">>
FIELD   == <<"f", "i", "e", "l", "d">>
TEXTBOX == <<"t", "e", "x", "t", "b", "o", "x">>
ICON    == <<"i", "c", "o", "n">>
SYMBOL  == <<"s", "y", "m", "b", "o", "l">>
SEARCH  == <<"s", "e", "a", "r", "c", "h">>
LINK    == <<"l", "i", "n", "k">>
HYPERLINK == <<"h", "y", "p", "e", "r", "l", "i", "n", "k">>
IMAGE   == <<"i", "m", "a", "g", "e">>
IMG     == <<"i", "m", "g">>
PHOTO   == <<"p", "h", "o", "t", "o">>
TEXT    == <<"t", "e", "x", "t">>

\* the search keywords are tested before those of input and icon
_extract_element_type_search_first(caption) ==
    LET caption_lower == lower(caption)
        any(words) == \E word \in words : in_(word, caption_lower)
    IN  IF any({BUTTON, BTN}) THEN BUTTON
        ELSE IF any({SEARCH}) THEN SEARCH
        ELSE IF any({INPUT, FIELD, TEXTBOX}) THEN INPUT
        ELSE IF any({ICON, SYMBOL}) THEN ICON
        ELSE IF any({LINK, HYPERLINK}) THEN LINK
        ELSE IF any({IMAGE, IMG, PHOTO}) THEN IMAGE
        ELSE TEXT

_extract_element_type(caption) ==
    LET caption_lower == lower(caption)
        any(words) == \E word \in words : in_(word, caption_lower)
    IN  IF any({BUTTON, BTN}) THEN BUTTON
        ELSE IF any({INPUT, FIELD, TEXTBOX}) THEN INPUT
        ELSE IF any({ICON, SYMBOL}) THEN ICON
        ELSE IF any({SEARCH}) THEN SEARCH
        ELSE IF any({LINK, HYPERLINK}) THEN LINK
        ELSE IF any({IMAGE, IMG, PHOTO}) THEN IMAGE
        ELSE TEXT

\* screenshots that decode to an image
Decodable(shot) == shot \in {"A", "B", "D", "E"}

\* boxes.xyxy and boxes.conf of the detection model per image, coordinates
\* in tenths of a pixel and confidence in percent; the blank page E has no
\* box, page D has a hairline less than a pixel wide
YOLO(shot) ==
    IF shot = "A"
    THEN <<[xyxy |-> <<1004, 407, 3009, 1200>>, conf |-> 90]>>
    ELSE IF shot = "E" THEN <<>>
    ELSE IF shot = "D"
    THEN <<[xyxy |-> <<102, 400, 108, 1200>>, conf |-> 40]>>
    ELSE <<[xyxy |-> <<6400, 4005, 12800, 8000>>, conf |-> 60]>>

\* int() of a float given in tenths: the fraction is dropped
int(tenths) ==
    IF tenths >= 0 THEN tenths \div 10 ELSE -((-tenths) \div 10)

\* every box is kept, also one whose corners int() brings together
_detect_ui_elements(shot) ==
    [i \in 1..Len(YOLO(shot)) |->
        [bbox |-> <<int(YOLO(shot)[i].xyxy[1]), int(YOLO(shot)[i].xyxy[2]),
                    int(YOLO(shot)[i].xyxy[3]), int(YOLO(shot)[i].xyxy[4])>>,
         confidence |-> YOLO(shot)[i].conf]]

_caption_element == <<"U", "I", " ", "e", "l", "e", "m", "e", "n", "t">>

RECURSIVE _generate_captions(_, _, _)
_generate_captions(detections, viewport_width, viewport_height) ==
    IF detections = <<>> THEN Value(<<>>)
    ELSE LET detection   == Head(detections)
             b           == detection.bbox
             caption     == _caption_element
             grid_coords == _pixel_to_grid((b[1] + b[3]) \div 2, (b[2] + b[4]) \div 2,
                                           viewport_width, viewport_height)
         IN  IF grid_coords.kind = "raise" THEN Raise
             ELSE LET element ==
                          [element_type |-> _extract_element_type(caption),
                           caption      |-> caption,
                           bbox         |-> [x_min |-> b[1], y_min |-> b[2],
                                             x_max |-> b[3], y_max |-> b[4]],
                           grid_center  |-> grid_coords.value,
                           confidence   |-> detection.confidence]
                      rest == _generate_captions(Tail(detections),
                                                 viewport_width, viewport_height)
                  IN  IF rest.kind = "raise" THEN Raise
                      ELSE Value(<<element>> \o rest.value)

\* a detector on which no model has been loaded
ElementDetector ==
    [_detection_model |-> None, _caption_model |-> None, _caption_processor |-> None]

\* the outcome of _load_models and the detector afterwards: the detection
\* model is kept when the caption weights turn out to be missing
_load_models(self) ==
    IF self._detection_model # None THEN [kind |-> "return", self |-> self]
    ELSE IF "icon_detect" \notin weights_dir THEN [kind |-> "raise", self |-> self]
    ELSE LET detecting == [self EXCEPT !._detection_model = "YOLO"]
         IN  IF "icon_caption_florence" \notin weights_dir
             THEN [kind |-> "raise", self |-> detecting]
             ELSE [kind |-> "return",
                   self |-> [detecting EXCEPT !._caption_model = "Florence",
                                              !._caption_processor = "AutoProcessor"]]

\* try: r, except Exception: handler
Except(r, handler) == IF r.kind = "raise" THEN handler ELSE r

\* the try block of detect_elements
detect_elements_try(self, screenshot_base64, viewport_width, viewport_height) ==
    IF _load_models(self).kind = "raise" THEN Raise
    ELSE IF ~Decodable(screenshot_base64) THEN Raise
    ELSE _generate_captions(_detect_ui_elements(screenshot_base64),
                            viewport_width, viewport_height)

\* the models are loaded before the try block is entered
detect_elements_load_outside_try(self, screenshot_base64, viewport_width, viewport_height) ==
    IF _load_models(self).kind = "raise" THEN Raise
    ELSE Except(detect_elements_try(self, screenshot_base64,
                                    viewport_width, viewport_height),
                Value(<<>>))

\* except Exception: return []
detect_elements(self, screenshot_base64, viewport_width, viewport_height) ==
    Except(detect_elements_try(self, screenshot_base64,
                               viewport_width, viewport_height),
           Value(<<>>))

\* the value of cls._instance while it is None: references count from 1
NoInstance == 0

\* cls._instance and the objects after get_instance: a detector is created
\* when there is none
get_instance ==
    IF _instance = NoInstance
    THEN [_instance |-> Len(detectors) + 1,
          detectors |-> Append(detectors, ElementDetector)]
    ELSE [_instance |-> _instance, detectors |-> detectors]

\* the object get_instance returns
Singleton == get_instance.detectors[get_instance._instance]

\* calls of YOLO(...) that _load_models makes on self
YOLO_calls(self) ==
    IF self._detection_model = None /\ "icon_detect" \in weights_dir THEN 1 ELSE 0

\* the call on the singleton, in a try block of its own
detect_elements_from_screenshot(screenshot_base64, viewport_width, viewport_height) ==
    Except(detect_elements(Singleton, screenshot_base64,
                           viewport_width, viewport_height),
           Value(<<>>)).value

\* only a missing screenshot is skipped, an empty one goes to the detector
element_detection_node_none_only(state) ==
    IF ~ELEMENT_DETECTION_ENABLED
    THEN [update |-> [detected_elements |-> <<>>], calls |-> <<>>]
    ELSE IF state.current_screenshot = None \/ state.viewport = NoViewport
    THEN [update |-> [detected_elements |-> <<>>], calls |-> <<>>]
    ELSE LET viewport_width  == state.viewport.width
             viewport_height == state.viewport.height
         IN  [update |-> [detected_elements |->
                            detect_elements_from_screenshot(
                                state.current_screenshot,
                                viewport_width, viewport_height)],
              calls  |-> <<[screenshot_base64 |-> state.current_screenshot,
                            viewport_width    |-> viewport_width,
                            viewport_height   |-> viewport_height]>>]

\* the update the node returns and the calls of the detector it makes
element_detection_node(state) ==
    IF ~ELEMENT_DETECTION_ENABLED
    THEN [update |-> [detected_elements |-> <<>>], calls |-> <<>>]
    ELSE IF state.current_screenshot \in {None, ""} \/ state.viewport = NoViewport
    THEN [update |-> [detected_elements |-> <<>>], calls |-> <<>>]
    ELSE LET viewport_width  == state.viewport.width
             viewport_height == state.viewport.height
         IN  [update |-> [detected_elements |->
                            detect_elements_from_screenshot(
                                state.current_screenshot,
                                viewport_width, viewport_height)],
              calls  |-> <<[screenshot_base64 |-> state.current_screenshot,
                            viewport_width    |-> viewport_width,
                            viewport_height   |-> viewport_height]>>]

\* enumerate(elements) without the start value: indices count from 0
format_elements_for_prompt_zero_based(elements) ==
    IF elements = <<>> THEN EmptyStr
    ELSE LET lines ==
                 << <<"Detected UI Elements:">> >>
                 \o [i \in 1..Len(elements) |->
                       <<"- [", str(i - 1), "] ", title(elements[i].element_type),
                         " \"", elements[i].caption, "\" at grid (",
                         str(elements[i].grid_center.x), ", ",
                         str(elements[i].grid_center.y), ")">>]
         IN  JoinLines(lines)

format_elements_for_prompt(elements) ==
    IF elements = <<>> THEN EmptyStr
    ELSE LET lines ==
                 << <<"Detected UI Elements:">> >>
                 \o [i \in 1..Len(elements) |->
                       <<"- [", str(i), "] ", title(elements[i].element_type),
                         " \"", elements[i].caption, "\" at grid (",
                         str(elements[i].grid_center.x), ", ",
                         str(elements[i].grid_center.y), ")">>]
         IN  JoinLines(lines)

(* ----------------------------- messages ------------------------------- *)

HumanMessage(content, image) ==
    [type |-> "human", content |-> content, image |-> image]

AIMessage(content, tool_calls) ==
    [type |-> "ai", content |-> content, tool_calls |-> tool_calls]

ToolMessage(content, tool_call_id) ==
    [type |-> "tool", content |-> content, tool_call_id |-> tool_call_id]

\* messages declared without a reducer: the update replaces the list
ApplyUpdate_overwrite(state, u) ==
    [messages           |-> Get(u, "messages", state.messages),
     current_screenshot |-> Get(u, "current_screenshot", state.current_screenshot),
     viewport           |-> Get(u, "viewport", state.viewport),
     detected_elements  |-> Get(u, "detected_elements", state.detected_elements)]

\* detected_elements declared with an accumulating reducer, like messages
ApplyUpdate_accumulate(state, u) ==
    [messages           |-> IF "messages" \in DOMAIN u
                            THEN state.messages \o u.messages
                            ELSE state.messages,
     current_screenshot |-> Get(u, "current_screenshot", state.current_screenshot),
     viewport           |-> Get(u, "viewport", state.viewport),
     detected_elements  |-> IF "detected_elements" \in DOMAIN u
                            THEN state.detected_elements \o u.detected_elements
                            ELSE state.detected_elements]

\* AgentState field reducers: add_messages appends, the other fields are
\* overwritten by a key that is present in the update
ApplyUpdate(state, u) ==
    [messages           |-> IF "messages" \in DOMAIN u
                            THEN state.messages \o u.messages
                            ELSE state.messages,
     current_screenshot |-> Get(u, "current_screenshot", state.current_screenshot),
     viewport           |-> Get(u, "viewport", state.viewport),
     detected_elements  |-> Get(u, "detected_elements", state.detected_elements)]

(* ------------------------------ the LLM ------------------------------- *)

NumProposals(msgs) == Cardinality({i \in 1..Len(msgs) : msgs[i].type = "ai"})

FollowerSeqs ==
    UNION {[1..n -> FollowerCalls] : n \in 0..(MaxCalls - 1)}

\* ids the provider gives the tool requests of the proposal at position pos
WithIds(calls, pos) ==
    [i \in 1..Len(calls) |->
        [name |-> calls[i].name, args |-> calls[i].args, id |-> 10 * pos + i]]

\* what model.invoke may return for a conversation
Responses(msgs) ==
    {AIMessage(t, <<>>) : t \in Texts}
    \cup (IF NumProposals(msgs) < MaxTurns /\ MaxCalls >= 1
          THEN {AIMessage(t, WithIds(<<c>> \o f, Len(msgs) + 1)) :
                    t \in ToolTexts, c \in FirstCalls, f \in FollowerSeqs}
          ELSE {})

\* content of prompts/system.prompt.md
get_system_prompt == << <<"system.prompt.md">> >>

\* the SystemMessage model_node puts before the conversation
system_message(state) ==
    LET base_prompt == get_system_prompt
        elements_context ==
            IF state.detected_elements # <<>>
            THEN Concat(TwoNewlines, format_elements_for_prompt(state.detected_elements))
            ELSE EmptyStr
        full_prompt == Concat(base_prompt, elements_context)
    IN  [type |-> "system", content |-> full_prompt]

\* the system message is returned together with the response
model_node_with_prompt(state, response) ==
    [messages |-> <<system_message(state), response>>]

\* the node returns the whole conversation with the response at its end
model_node_with_history(state, response) ==
    [messages |-> state.messages \o <<response>>]

model_node(state, response) == [messages |-> <<response>>]

(* ------------------------------ routing ------------------------------- *)

\* routes to tool_node for every proposal, also one without tool requests
should_continue_any_proposal(state) ==
    LET msgs == state.messages IN
    IF Len(msgs) = 0 THEN END
    ELSE IF msgs[Len(msgs)].type = "ai" THEN "tool_node" ELSE END

\* the test on tool_calls inverted
should_continue_inverted(state) ==
    LET msgs == state.messages IN
    IF Len(msgs) = 0 THEN END
    ELSE LET last_message == msgs[Len(msgs)] IN
         IF last_message.type = "ai" /\ Len(last_message.tool_calls) = 0
         THEN "tool_node"
         ELSE END

should_continue(state) ==
    LET msgs == state.messages IN
    IF Len(msgs) = 0 THEN END
    ELSE LET last_message == msgs[Len(msgs)] IN
         IF last_message.type = "ai" /\ Len(last_message.tool_calls) > 0
         THEN "tool_node"
         ELSE END

\* START -> element_detection -> model_node -> tool_node -> element_detection
\*                                    |
\*                                   END
NextNode(node, state) ==
    CASE node = "START"             -> "element_detection"
      [] node = "element_detection" -> "model_node"
      [] node = "model_node"        -> should_continue(state)
      [] node = "tool_node"         -> "element_detection"

(* --------------------------- argument schemas ------------------------- *)

\* Field(ge=lo, le=hi) on an int
InRange(v, lo, hi) == lo <= v /\ v <= hi

\* a required int field with bounds
Required(args, field, lo, hi) ==
    field \in DOMAIN args /\ InRange(args[field], lo, hi)

\* Optional[int] with default None and bounds: an omitted field passes
OptionalInt(args, field, lo, hi) ==
    field \in DOMAIN args => InRange(args[field], lo, hi)

\* the upper bound of the grid is not declared
ClickArgs_no_upper(args) ==
    IF /\ {"x", "y"} \subseteq DOMAIN args
       /\ args.x >= 0
       /\ args.y >= 0
    THEN Value([x |-> args.x, y |-> args.y])
    ELSE Raise

\* the validated model, or pydantic's ValidationError
ClickArgs(args) ==
    IF Required(args, "x", 0, 100) /\ Required(args, "y", 0, 100)
    THEN Value([x |-> args.x, y |-> args.y])
    ELSE Raise

\* direction is a str without further constraint
ScrollArgs(args) ==
    IF /\ "direction" \in DOMAIN args
       /\ ("amount" \in DOMAIN args => args.amount >= 0)
       /\ OptionalInt(args, "x", 0, 100)
       /\ OptionalInt(args, "y", 0, 100)
    THEN Value([direction |-> args.direction,
                amount    |-> Get(args, "amount", 300),
                x         |-> Get(args, "x", None),
                y         |-> Get(args, "y", None)])
    ELSE Raise

DragArgs(args) ==
    IF /\ Required(args, "start_x", 0, 100)
       /\ Required(args, "start_y", 0, 100)
       /\ Required(args, "end_x", 0, 100)
       /\ Required(args, "end_y", 0, 100)
    THEN Value([start_x |-> args.start_x, start_y |-> args.start_y,
                end_x |-> args.end_x, end_y |-> args.end_y])
    ELSE Raise

WaitArgs(args) ==
    IF Required(args, "ms", 0, 10000)
    THEN Value([ms |-> args.ms])
    ELSE Raise

\* the args_schema of a browser tool applied to the arguments
args_schema(name, args) ==
    CASE name = "click"  -> ClickArgs(args)
      [] name = "scroll" -> ScrollArgs(args)
      [] name = "drag"   -> DragArgs(args)
      [] name = "wait"   -> WaitArgs(args)

(* ------------------------------ tool node ----------------------------- *)

LoadSkillArgsValid(args) == "skill_name" \in DOMAIN args
CollectDataArgsValid(args) == "data" \in DOMAIN args

\* the names are listed in directory order
load_skill_unsorted(args) ==
    LET skill_name == args.skill_name IN
    IF skill_name \in AvailableSkills
    THEN << <<skill_name, ".skill.prompt.md">> >>
    ELSE LET available == list_skills
             available_str == IF available # <<>>
                              THEN JoinComma(available) ELSE <<"none">>
         IN  << <<"Error: Skill '", skill_name, "' not found.">>,
                <<>>,
                <<"Available skills: ">> \o available_str,
                <<>>,
                <<"Skills are located in: ", "SKILLS_DIR">> >>

\* the content of the skill file, or the error text when load_prompt raises
\* PromptLoadError
load_skill(args) ==
    LET skill_name == args.skill_name IN
    IF skill_name \in AvailableSkills
    THEN << <<skill_name, ".skill.prompt.md">> >>
    ELSE LET available == list_skills
             available_str == IF available # <<>>
                              THEN JoinComma(sorted(available)) ELSE <<"none">>
         IN  << <<"Error: Skill '", skill_name, "' not found.">>,
                <<>>,
                <<"Available skills: ">> \o available_str,
                <<>>,
                <<"Skills are located in: ", "SKILLS_DIR">> >>

collect_data(args) ==
    << <<"Successfully collected ", str(Len(args.data)),
         " items. Data submitted for processing.">> >>

_execute_server_side_tool(tool_call) ==
    LET tool_name == tool_call.name
        args      == tool_call.args
    IN  IF tool_name = "load_skill"
        THEN IF LoadSkillArgsValid(args)
             THEN Return([messages |-> <<ToolMessage(load_skill(args), tool_call.id)>>])
             ELSE Raise
        ELSE IF tool_name = "collect_data"
        THEN IF CollectDataArgsValid(args)
             THEN Return([messages |-> <<ToolMessage(collect_data(args), tool_call.id)>>])
             ELSE Raise
        ELSE Return([messages |->
                 <<ToolMessage(<< <<"Unknown server-side tool: ", tool_name>> >>,
                               tool_call.id)>>])

\* the payload built without the screenshot request
BrowserToolCall_no_screenshot(action, args) ==
    [action |-> action, args |-> args, request_screenshot |-> FALSE]

\* asdict(BrowserToolCall(action, args, request_screenshot=True))
BrowserToolCall(action, args) ==
    [action |-> action, args |-> args, request_screenshot |-> TRUE]

\* the new screenshot is stored but the old elements are left in place
client_side_updates_keep_elements(tool_call, result_dict) ==
    LET vp == IF Get(result_dict, "viewport", <<>>) # <<>>
              THEN [width  |-> result_dict.viewport.width,
                    height |-> result_dict.viewport.height]
              ELSE NoViewport
        tool_message == ToolMessage(result_dict.result, tool_call.id)
    IN  [messages |-> <<tool_message>>]
        @@ (IF Get(result_dict, "screenshot", None) # None
            THEN [current_screenshot |-> result_dict.screenshot]
            ELSE <<>>)
        @@ (IF vp # NoViewport THEN [viewport |-> vp] ELSE <<>>)

\* the updates dict is rebuilt, without the message, when a screenshot arrives
client_side_updates_drop_message(tool_call, result_dict) ==
    LET vp == IF Get(result_dict, "viewport", <<>>) # <<>>
              THEN [width  |-> result_dict.viewport.width,
                    height |-> result_dict.viewport.height]
              ELSE NoViewport
        tool_message == ToolMessage(result_dict.result, tool_call.id)
    IN  (IF Get(result_dict, "screenshot", None) # None
         THEN [current_screenshot |-> result_dict.screenshot,
               detected_elements  |-> <<>>]
         ELSE [messages |-> <<tool_message>>])
        @@ (IF vp # NoViewport THEN [viewport |-> vp] ELSE <<>>)

\* the old elements are cleared on every resume, with or without a screenshot
client_side_updates_always_clear(tool_call, result_dict) ==
    LET vp == IF Get(result_dict, "viewport", <<>>) # <<>>
              THEN [width  |-> result_dict.viewport.width,
                    height |-> result_dict.viewport.height]
              ELSE NoViewport
        tool_message == ToolMessage(result_dict.result, tool_call.id)
    IN  [messages |-> <<tool_message>>, detected_elements |-> <<>>]
        @@ (IF Get(result_dict, "screenshot", None) # None
            THEN [current_screenshot |-> result_dict.screenshot]
            ELSE <<>>)
        @@ (IF vp # NoViewport THEN [viewport |-> vp] ELSE <<>>)

\* the part of _execute_client_side_tool after interrupt() has returned
client_side_updates(tool_call, result_dict) ==
    LET vp == IF Get(result_dict, "viewport", <<>>) # <<>>
              THEN [width  |-> result_dict.viewport.width,
                    height |-> result_dict.viewport.height]
              ELSE NoViewport
        result == [result     |-> result_dict.result,
                   screenshot |-> Get(result_dict, "screenshot", None),
                   viewport   |-> vp]
        tool_message == ToolMessage(result.result, tool_call.id)
    IN  [messages |-> <<tool_message>>]
        @@ (IF result.screenshot # None
            THEN [current_screenshot |-> result.screenshot,
                  detected_elements  |-> <<>>]
            ELSE <<>>)
        @@ (IF result.viewport # NoViewport
            THEN [viewport |-> result.viewport]
            ELSE <<>>)

_execute_client_side_tool(tool_call, resume) ==
    IF resume = NoResume
    THEN Interrupt(BrowserToolCall(tool_call.name, tool_call.args))
    ELSE Return(client_side_updates(tool_call, resume))

\* acts on the last tool request of the proposal instead of the first
tool_node_last_call(state, resume) ==
    LET msgs == state.messages IN
    IF Len(msgs) = 0 THEN Return(<<>>)
    ELSE LET last_message == msgs[Len(msgs)] IN
         IF last_message.type # "ai" THEN Return(<<>>)
         ELSE IF Len(last_message.tool_calls) = 0 THEN Return(<<>>)
         ELSE LET tool_call == last_message.tool_calls[Len(last_message.tool_calls)] IN
              IF tool_call.name \in SERVER_SIDE_TOOLS
              THEN _execute_server_side_tool(tool_call)
              ELSE _execute_client_side_tool(tool_call, resume)

\* the guard on an empty tool_calls list is missing: tool_calls[0] raises
tool_node_no_empty_guard(state, resume) ==
    LET msgs == state.messages IN
    IF Len(msgs) = 0 THEN Return(<<>>)
    ELSE LET last_message == msgs[Len(msgs)] IN
         IF last_message.type # "ai" THEN Return(<<>>)
         ELSE IF Len(last_message.tool_calls) = 0 THEN Raise
         ELSE LET tool_call == last_message.tool_calls[1] IN
              IF tool_call.name \in SERVER_SIDE_TOOLS
              THEN _execute_server_side_tool(tool_call)
              ELSE _execute_client_side_tool(tool_call, resume)

tool_node(state, resume) ==
    LET msgs == state.messages IN
    IF Len(msgs) = 0 THEN Return(<<>>)
    ELSE LET last_message == msgs[Len(msgs)] IN
         IF last_message.type # "ai" THEN Return(<<>>)
         ELSE IF Len(last_message.tool_calls) = 0 THEN Return(<<>>)
         ELSE LET tool_call == last_message.tool_calls[1] IN
              IF tool_call.name \in SERVER_SIDE_TOOLS
              THEN _execute_server_side_tool(tool_call)
              ELSE _execute_client_side_tool(tool_call, resume)

(* ------------------------------ the graph ----------------------------- *)

\* merge a node's update into the state
Merge(u) ==
    LET s == ApplyUpdate(AgentState, u) IN
    /\ messages' = s.messages
    /\ current_screenshot' = s.current_screenshot
    /\ viewport' = s.viewport
    /\ detected_elements' = s.detected_elements
    /\ update' = u

Keep == UNCHANGED <<messages, current_screenshot, viewport, detected_elements>>

\* no model.invoke has happened yet
NoPrompt == <<>>
\* no function is called on its own
NoCall == [fn |-> "none"]
NoRet == [kind |-> "pending"]

\* the process environment a task normally runs in: detection enabled, both
\* weight directories in place, no model loaded yet
InitEnv ==
    /\ ELEMENT_DETECTION_ENABLED = TRUE
    /\ weights_dir = AllWeights
    /\ _instance = NoInstance
    /\ detectors = <<>>
    /\ loads = 0
    /\ detector_calls = <<>>
    /\ sent_prompt = NoPrompt
    /\ call = NoCall
    /\ ret = NoRet
    /\ threads = <<>>
    /\ tasks = <<>>
    /\ datasources = <<>>

\* a step that is not the Perception Step
NoDetection ==
    /\ detector_calls' = <<>>
    /\ UNCHANGED <<ELEMENT_DETECTION_ENABLED, weights_dir, _instance, detectors,
                   loads, call, ret, threads, tasks, datasources>>

\* the caller starts a task: one user message with the instruction and the
\* screenshot, plus screenshot and viewport in the state when it has them
Init ==
    /\ InitEnv
    /\ \E shot \in {None, "A"}, vp \in {NoViewport, VP_A} :
          /\ messages = <<HumanMessage("task", shot)>>
          /\ current_screenshot = shot
          /\ viewport = vp
    /\ detected_elements = <<>>
    /\ iteration_start = AgentState
    /\ pc = NextNode("START", <<>>)
    /\ update = <<>>
    /\ interrupts = <<>>
    /\ resumed = NoResume

ElementDetection ==
    /\ pc = "element_detection"
    /\ \E r \in {element_detection_node(AgentState)} :
          /\ Merge(r.update)
          /\ detector_calls' = r.calls
          /\ _instance' = IF r.calls = <<>> THEN _instance
                          ELSE get_instance._instance
          /\ detectors' = IF r.calls = <<>> THEN detectors
                          ELSE [get_instance.detectors
                                   EXCEPT ![get_instance._instance] =
                                              _load_models(@).self]
          /\ loads' = IF r.calls = <<>> THEN loads
                      ELSE loads + YOLO_calls(Singleton)
    /\ pc' = NextNode("element_detection", ApplyUpdate(AgentState, update'))
    /\ resumed' = NoResume
    /\ UNCHANGED <<interrupts, ELEMENT_DETECTION_ENABLED, weights_dir,
                   sent_prompt, call, ret, iteration_start, threads, tasks, datasources>>

ModelNode ==
    /\ pc = "model_node"
    /\ \E response \in Responses(messages) :
          /\ Merge(model_node(AgentState, response))
          /\ pc' = NextNode("model_node", ApplyUpdate(AgentState, update'))
    /\ sent_prompt' = system_message(AgentState).content
    /\ resumed' = NoResume
    /\ NoDetection
    /\ UNCHANGED <<interrupts, iteration_start>>

\* model.invoke raises (timeout, malformed response): the run aborts
ModelNodeFails ==
    /\ pc = "model_node"
    /\ pc' = "error"
    /\ update' = <<>>
    /\ sent_prompt' = system_message(AgentState).content
    /\ resumed' = NoResume
    /\ NoDetection
    /\ Keep
    /\ UNCHANGED <<interrupts, iteration_start>>

\* the payload is handed out but the graph does not wait for the resume
RunToolNode_no_suspend(resume) ==
    LET r == tool_node(AgentState, resume) IN
    CASE r.kind = "return" ->
            /\ Merge(r.update)
            /\ pc' = NextNode("tool_node", ApplyUpdate(AgentState, r.update))
            /\ iteration_start' = ApplyUpdate(AgentState, r.update)
            /\ UNCHANGED interrupts
      [] r.kind = "interrupt" ->
            /\ interrupts' = Append(interrupts, r.value)
            /\ pc' = NextNode("tool_node", AgentState)
            /\ update' = <<>>
            /\ Keep
            /\ UNCHANGED iteration_start
      [] r.kind = "raise" ->
            /\ pc' = "error"
            /\ update' = <<>>
            /\ Keep
            /\ UNCHANGED <<interrupts, iteration_start>>

\* the old elements are cleared already when the node suspends
RunToolNode_clear_on_suspend(resume) ==
    LET r == tool_node(AgentState, resume) IN
    CASE r.kind = "return" ->
            /\ Merge(r.update)
            /\ pc' = NextNode("tool_node", ApplyUpdate(AgentState, r.update))
            /\ iteration_start' = ApplyUpdate(AgentState, r.update)
            /\ UNCHANGED interrupts
      [] r.kind = "interrupt" ->
            /\ interrupts' = Append(interrupts, r.value)
            /\ pc' = "interrupted"
            /\ Merge([detected_elements |-> <<>>])
            /\ UNCHANGED iteration_start
      [] r.kind = "raise" ->
            /\ pc' = "error"
            /\ update' = <<>>
            /\ Keep
            /\ UNCHANGED <<interrupts, iteration_start>>

RunToolNode(resume) ==
    LET r == tool_node(AgentState, resume) IN
    CASE r.kind = "return" ->
            /\ Merge(r.update)
            /\ pc' = NextNode("tool_node", ApplyUpdate(AgentState, r.update))
            /\ iteration_start' = ApplyUpdate(AgentState, r.update)
            /\ UNCHANGED interrupts
      [] r.kind = "interrupt" ->
            /\ interrupts' = Append(interrupts, r.value)
            /\ pc' = "interrupted"
            /\ update' = <<>>
            /\ Keep
            /\ UNCHANGED iteration_start
      [] r.kind = "raise" ->
            /\ pc' = "error"
            /\ update' = <<>>
            /\ Keep
            /\ UNCHANGED <<interrupts, iteration_start>>

ToolNode ==
    /\ pc = "tool_node"
    /\ RunToolNode(NoResume)
    /\ resumed' = NoResume
    /\ NoDetection
    /\ UNCHANGED sent_prompt

\* Command(resume=value): tool_node runs again and interrupt() returns value
Resume ==
    /\ pc = "interrupted"
    /\ \E value \in ResumeValues :
          /\ RunToolNode(value)
          /\ resumed' = value
    /\ NoDetection
    /\ UNCHANGED sent_prompt

Next == ElementDetection \/ ModelNode \/ ModelNodeFails \/ ToolNode \/ Resume

Spec == Init /\ [][Next]_vars

(* ------------------- a node invoked on a given state ------------------ *)

\* conversations a caller may hand to tool_node directly
DirectConversations ==
    LET H == HumanMessage("task", "A") IN
    { <<>>,
      <<H>>,
      <<H, AIMessage("done", <<>>)>>,
      <<H, AIMessage("", WithIds(<<[name |-> "click", args |-> [x |-> 50, y |-> 50]]>>, 2)),
           ToolMessage("ok", 21)>> }
    \cup { <<H, AIMessage("", WithIds(<<c>>, 2))>> :
              c \in FirstCalls
                    \cup {[name |-> "load_skill", args |-> [skill_name |-> GMAIL]]} }

InitDirect ==
    /\ InitEnv
    /\ messages \in DirectConversations
    /\ \E sv \in {<<None, NoViewport>>, <<"A", VP_A>>} :
          /\ current_screenshot = sv[1]
          /\ viewport = sv[2]
          /\ detected_elements \in
                {<<>>, element_detection_node(
                          [current_screenshot |-> sv[1], viewport |-> sv[2]]).update.detected_elements}
    /\ iteration_start = AgentState
    /\ pc = "tool_node"
    /\ update = <<>>
    /\ interrupts = <<>>
    /\ resumed = NoResume

SpecDirect == InitDirect /\ [][Next]_vars

(* ------------------ the Perception Step on a given state -------------- *)

\* a detector whose models an earlier call has loaded
LoadedDetector ==
    [_detection_model |-> "YOLO", _caption_model |-> "Florence",
     _caption_processor |-> "AutoProcessor"]

\* elements an earlier Perception Step left in the state
StaleElements == _generate_captions(_detect_ui_elements("B"), 1920, 1080).value

\* any flag, weights, detector, screenshot and viewport a process and a
\* client can present to element_detection_node
InitPerception ==
    /\ ELEMENT_DETECTION_ENABLED \in BOOLEAN
    /\ weights_dir \in WeightSets
    /\ detectors \in {<<>>, <<ElementDetector>>, <<LoadedDetector>>}
    /\ _instance = IF detectors = <<>> THEN NoInstance ELSE 1
    /\ loads = IF detectors = <<LoadedDetector>> THEN 1 ELSE 0
    /\ current_screenshot \in {None} \cup Screenshots
    /\ viewport \in {NoViewport, VP_A, VP_B, VP_W0, VP_H0}
    /\ detected_elements \in {<<>>, StaleElements}
    /\ messages = <<HumanMessage("task", current_screenshot)>>
    /\ iteration_start = AgentState
    /\ pc = "element_detection"
    /\ update = <<>>
    /\ interrupts = <<>>
    /\ resumed = NoResume
    /\ detector_calls = <<>>
    /\ sent_prompt = NoPrompt
    /\ call = NoCall
    /\ ret = NoRet
    /\ threads = <<>>
    /\ tasks = <<>>
    /\ datasources = <<>>

NextPerception == ElementDetection \/ ModelNodeFails

SpecPerception == InitPerception /\ [][NextPerception]_vars

(* ------------------- functions called on their own -------------------- *)

\* viewports the coordinate mapping is called with, and zero dimensions
GridViewports == {<<100, 50>>, <<7, 3>>, <<1000, 800>>, <<1280, 800>>}
ZeroViewports == {<<0, 800>>, <<1280, 0>>, <<0, 0>>}

\* pixels along a dimension: all of them around a small dimension, and for
\* a large one the corners, the centre, both sides of each border and
\* points whose hundredths fall between two grid values
Pixels(dim) ==
    IF dim = 0 THEN {0, 10}
    ELSE IF dim <= 100 THEN (-2)..(dim + 2)
    ELSE {-dim, -1, 0, 1, 6, (29 * dim) \div 100, dim \div 2, (57 * dim) \div 100,
          dim - 5, dim - 1, dim, dim + 1, 2 * dim}

PixelToGridCalls ==
    UNION { { [fn |-> "_pixel_to_grid", x |-> x, y |-> y,
               viewport_width |-> vp[1], viewport_height |-> vp[2]] :
                 x \in Pixels(vp[1]), y \in Pixels(vp[2]) } :
            vp \in GridViewports \cup ZeroViewports }

DetectCalls ==
    { [fn |-> "detect_elements", self |-> self, screenshot_base64 |-> shot,
       viewport_width |-> vp.width, viewport_height |-> vp.height] :
         self \in {ElementDetector, LoadedDetector},
         shot \in Screenshots \cup {"D"},
         vp \in {VP_A, VP_B, VP_W0, VP_H0} }

\* captions a captioning model may give
Captions ==
    { <<"S", "e", "n", "d", " ", "b", "u", "t", "t", "o", "n">>, <<"C", "l", "i", "c", "k", " ", "t", "h", "i", "s", " ", "b", "t", "n">>, <<"S", "e", "a", "r", "c", "h", " ", "i", "n", "p", "u", "t", " ", "f", "i", "e", "l", "d">>, <<"T", "e", "x", "t", " ", "f", "i", "e", "l", "d">>,
      <<"S", "o", "m", "e", " ", "r", "a", "n", "d", "o", "m", " ", "c", "a", "p", "t", "i", "o", "n">>, <<"U", "I", " ", "e", "l", "e", "m", "e", "n", "t">>, <<>>, <<"S", "E", "A", "R", "C", "H">>, <<"S", "e", "a", "r", "c", "h", " ", "i", "c", "o", "n">>,
      <<"L", "i", "n", "k", " ", "t", "o", " ", "i", "m", "a", "g", "e">>, <<"P", "r", "o", "f", "i", "l", "e", " ", "p", "h", "o", "t", "o">>, <<"H", "y", "p", "e", "r", "l", "i", "n", "k", " ", "s", "y", "m", "b", "o", "l">>, <<"I", "m", "a", "g", "e", " ", "B", "u", "t", "t", "o", "n">>,
      <<"S", "y", "m", "b", "o", "l", "i", "c", " ", "l", "i", "n", "k">>, <<"t", "e", "x", "t", "b", "o", "x">>, <<"i", "m", "g", "u", "r">>, <<"R", "e", "s", "e", "a", "r", "c", "h">> }

ExtractTypeCalls ==
    { [fn |-> "_extract_element_type", caption |-> c] : c \in Captions }

\* elements as the tests of format_elements_for_prompt build them
SampleElements ==
    { [element_type |-> BUTTON, caption |-> <<"S", "e", "n", "d">>,
       bbox |-> [x_min |-> 900, y_min |-> 700, x_max |-> 950, y_max |-> 750],
       grid_center |-> [x |-> 95, y |-> 92], confidence |-> 95],
      [element_type |-> INPUT, caption |-> <<"S", "e", "a", "r", "c", "h">>,
       bbox |-> [x_min |-> 100, y_min |-> 50, x_max |-> 200, y_max |-> 80],
       grid_center |-> [x |-> 12, y |-> 8], confidence |-> 88],
      [element_type |-> TEXT, caption |-> _caption_element,
       bbox |-> [x_min |-> 0, y_min |-> 790, x_max |-> 10, y_max |-> 800],
       grid_center |-> [x |-> 0, y |-> 100], confidence |-> 30] }

ElementLists == UNION {[1..n -> SampleElements] : n \in 0..MaxElements}

FormatCalls ==
    { [fn |-> "format_elements_for_prompt", elements |-> es] : es \in ElementLists }

\* grid coordinates on both sides of each limit
GridValues == {-1, 0, 50, 100, 101}

ClickCalls ==
    { [fn |-> "args_schema", name |-> "click", args |-> [x |-> x, y |-> y]] :
         x \in GridValues, y \in GridValues }
    \cup { [fn |-> "args_schema", name |-> "click", args |-> a] :
              a \in {<<>>, [x |-> 50], [y |-> 50]} }

DragCalls ==
    { [fn |-> "args_schema", name |-> "drag",
       args |-> [start_x |-> a, start_y |-> b, end_x |-> c, end_y |-> e]] :
         a \in {-1, 0, 100, 101}, b \in {0, 101}, c \in {-1, 100}, e \in {-1, 0, 100, 101} }
    \cup { [fn |-> "args_schema", name |-> "drag",
             args |-> [start_x |-> 10, start_y |-> 10, end_x |-> 90]] }

WaitCalls ==
    { [fn |-> "args_schema", name |-> "wait", args |-> [ms |-> ms]] :
         ms \in {-1, 0, 1, 500, 9999, 10000, 10001, 60000} }
    \cup { [fn |-> "args_schema", name |-> "wait", args |-> <<>>] }

\* directions a proposal may carry: the four of the docstring and others
Directions == {"up", "down", "left", "right", "diagonal", "UP", ""}

ScrollCalls ==
    { [fn |-> "args_schema", name |-> "scroll", args |-> [direction |-> dir] @@ a @@ xy] :
         dir \in Directions,
         a \in {<<>>} \cup {[amount |-> n] : n \in {-1, 0, 300, 5000}},
         xy \in {<<>>, [x |-> 60, y |-> 50], [x |-> 15], [x |-> 101, y |-> 50]} }
    \cup { [fn |-> "args_schema", name |-> "scroll", args |-> [amount |-> 300]] }

SystemMessageCalls ==
    { [fn |-> "system_message", state |-> [detected_elements |-> es]] :
         es \in ElementLists }

InitCalls ==
    /\ call \in PixelToGridCalls \cup DetectCalls \cup ExtractTypeCalls
                \cup FormatCalls \cup SystemMessageCalls
                \cup ClickCalls \cup DragCalls \cup WaitCalls \cup ScrollCalls
    /\ ret = NoRet
    /\ weights_dir \in IF call.fn = "detect_elements" THEN WeightSets ELSE {AllWeights}
    /\ _instance = 1
    /\ detectors = <<IF call.fn = "detect_elements" THEN call.self ELSE ElementDetector>>
    /\ loads = IF detectors = <<LoadedDetector>> THEN 1 ELSE 0
    /\ threads = <<>>
    /\ tasks = <<>>
    /\ datasources = <<>>
    /\ ELEMENT_DETECTION_ENABLED = TRUE
    /\ detector_calls = <<>>
    /\ sent_prompt = NoPrompt
    /\ messages = <<>>
    /\ current_screenshot = None
    /\ viewport = NoViewport
    /\ detected_elements = <<>>
    /\ iteration_start = AgentState
    /\ pc = "call"
    /\ update = <<>>
    /\ interrupts = <<>>
    /\ resumed = NoResume

\* the call returns (or raises) and nothing of the agent's state is touched
Returned(outcome) ==
    /\ pc = "call"
    /\ ret' = outcome
    /\ pc' = "returned"
    /\ UNCHANGED <<messages, current_screenshot, viewport, detected_elements,
                   update, interrupts, resumed, ELEMENT_DETECTION_ENABLED,
                   weights_dir, detector_calls, sent_prompt, call,
                   iteration_start, threads, tasks, datasources>>

CallPixelToGrid ==
    /\ call.fn = "_pixel_to_grid"
    /\ Returned(_pixel_to_grid(call.x, call.y,
                               call.viewport_width, call.viewport_height))
    /\ UNCHANGED <<_instance, detectors, loads>>

CallDetectElements ==
    /\ call.fn = "detect_elements"
    /\ Returned(detect_elements(detectors[_instance], call.screenshot_base64,
                                call.viewport_width, call.viewport_height))
    /\ detectors' = [detectors EXCEPT ![_instance] = _load_models(@).self]
    /\ loads' = loads + YOLO_calls(detectors[_instance])
    /\ UNCHANGED _instance

CallExtractElementType ==
    /\ call.fn = "_extract_element_type"
    /\ Returned(Value(_extract_element_type(call.caption)))
    /\ UNCHANGED <<_instance, detectors, loads>>

CallFormatElements ==
    /\ call.fn = "format_elements_for_prompt"
    /\ Returned(Value(format_elements_for_prompt(call.elements)))
    /\ UNCHANGED <<_instance, detectors, loads>>

CallSystemMessage ==
    /\ call.fn = "system_message"
    /\ Returned(Value(system_message(call.state)))
    /\ UNCHANGED <<_instance, detectors, loads>>

CallArgsSchema ==
    /\ call.fn = "args_schema"
    /\ Returned(args_schema(call.name, call.args))
    /\ UNCHANGED <<_instance, detectors, loads>>

NextCalls ==
    \/ CallArgsSchema
    \/ CallPixelToGrid
    \/ CallDetectElements
    \/ CallExtractElementType
    \/ CallFormatElements
    \/ CallSystemMessage

SpecCalls == InitCalls /\ [][NextCalls]_vars

(* --------------- threads of one process in the detector --------------- *)

Threads == 1..MaxThreads

\* the agent's own state is not involved in these calls
AgentIdle ==
    /\ messages = <<>>
    /\ current_screenshot = None
    /\ viewport = NoViewport
    /\ detected_elements = <<>>
    /\ iteration_start = AgentState
    /\ update = <<>>
    /\ interrupts = <<>>
    /\ resumed = NoResume
    /\ ELEMENT_DETECTION_ENABLED = TRUE
    /\ detector_calls = <<>>
    /\ sent_prompt = NoPrompt
    /\ call = NoCall
    /\ ret = NoRet

\* a fresh process: no detector has been created, every thread is about to
\* make its first call
InitThreads ==
    /\ AgentIdle
    /\ pc = "threads"
    /\ weights_dir \in WeightSets
    /\ _instance = NoInstance
    /\ detectors = <<>>
    /\ loads = 0
    /\ threads = [t \in Threads |-> [pc |-> "idle", fn |-> "none", detector |-> NoInstance]]
    /\ tasks = <<>>
    /\ datasources = <<>>

\* a step of thread t: its position moves, the rest of the agent is untouched
ThreadAt(t, from, to) ==
    /\ pc = "threads"
    /\ threads[t].pc = from
    /\ threads' = [threads EXCEPT ![t].pc = to]
    /\ UNCHANGED <<messages, current_screenshot, viewport, detected_elements, pc,
                   update, interrupts, resumed, ELEMENT_DETECTION_ENABLED,
                   weights_dir, detector_calls, sent_prompt, call, ret,
                   iteration_start, tasks, datasources>>

\* the thread calls get_instance, on its own or as the first statement of
\* detect_elements_from_screenshot
StartCall(t) ==
    /\ pc = "threads"
    /\ threads[t].pc = "idle"
    /\ \E fn \in {"get_instance", "detect_elements_from_screenshot"} :
          threads' = [threads EXCEPT ![t].pc = "get_instance", ![t].fn = fn]
    /\ UNCHANGED <<messages, current_screenshot, viewport, detected_elements, pc,
                   update, interrupts, resumed, ELEMENT_DETECTION_ENABLED,
                   weights_dir, detector_calls, sent_prompt, call, ret,
                   iteration_start, tasks, datasources>>
    /\ UNCHANGED <<_instance, detectors, loads>>

\* the test is skipped: every call constructs a detector
GetInstanceTest_always_new(t) ==
    /\ ThreadAt(t, "get_instance", "create")
    /\ UNCHANGED <<_instance, detectors, loads>>

\* if cls._instance is None
GetInstanceTest(t) ==
    /\ ThreadAt(t, "get_instance",
                IF _instance = NoInstance THEN "create" ELSE "return")
    /\ UNCHANGED <<_instance, detectors, loads>>

\* cls._instance = cls()
GetInstanceCreate(t) ==
    /\ ThreadAt(t, "create", "return")
    /\ detectors' = Append(detectors, ElementDetector)
    /\ _instance' = Len(detectors) + 1
    /\ UNCHANGED loads

\* return cls._instance
GetInstanceReturn(t) ==
    /\ pc = "threads"
    /\ threads[t].pc = "return"
    /\ threads' = [threads EXCEPT
                      ![t].detector = _instance,
                      ![t].pc = IF threads[t].fn = "get_instance"
                                THEN "done" ELSE "_load_models"]
    /\ UNCHANGED <<messages, current_screenshot, viewport, detected_elements, pc,
                   update, interrupts, resumed, ELEMENT_DETECTION_ENABLED,
                   weights_dir, detector_calls, sent_prompt, call, ret,
                   iteration_start, tasks, datasources>>
    /\ UNCHANGED <<_instance, detectors, loads>>

\* if self._detection_model is not None: return
LoadModelsTest(t) ==
    /\ ThreadAt(t, "_load_models",
                IF detectors[threads[t].detector]._detection_model # None
                THEN "detect" ELSE "load_detection")
    /\ UNCHANGED <<_instance, detectors, loads>>

\* self._detection_model = YOLO(...), or FileNotFoundError, which
\* detect_elements turns into []
LoadDetectionModel(t) ==
    /\ ThreadAt(t, "load_detection",
                IF "icon_detect" \in weights_dir THEN "load_caption" ELSE "done")
    /\ IF "icon_detect" \in weights_dir
       THEN /\ detectors' = [detectors EXCEPT
                                ![threads[t].detector]._detection_model = "YOLO"]
            /\ loads' = loads + 1
       ELSE UNCHANGED <<detectors, loads>>
    /\ UNCHANGED _instance

\* self._caption_model and self._caption_processor are set, or
\* FileNotFoundError
LoadCaptionModel(t) ==
    /\ ThreadAt(t, "load_caption",
                IF "icon_caption_florence" \in weights_dir THEN "detect" ELSE "done")
    /\ detectors' = IF "icon_caption_florence" \in weights_dir
                    THEN [detectors EXCEPT
                             ![threads[t].detector]._caption_model = "Florence",
                             ![threads[t].detector]._caption_processor = "AutoProcessor"]
                    ELSE detectors
    /\ UNCHANGED <<_instance, loads>>

\* decoding, detection and captioning with the loaded models
RunDetection(t) ==
    /\ ThreadAt(t, "detect", "done")
    /\ UNCHANGED <<_instance, detectors, loads>>

ThreadStep(t) ==
    \/ StartCall(t)
    \/ GetInstanceTest(t)
    \/ GetInstanceCreate(t)
    \/ GetInstanceReturn(t)
    \/ LoadModelsTest(t)
    \/ LoadDetectionModel(t)
    \/ LoadCaptionModel(t)
    \/ RunDetection(t)

\* the threads of the executor run the calls in any interleaving
NextThreads == \E t \in Threads : ThreadStep(t)

SpecThreads == InitThreads /\ [][NextThreads]_vars

\* no other thread is inside a call
Alone(t) == \A u \in Threads \ {t} : threads[u].pc \in {"idle", "done"}

\* the calls are made one after the other
NextSequential ==
    \E t \in Threads :
        \/ Alone(t) /\ StartCall(t)
        \/ Alone(t) /\ GetInstanceTest(t)
        \/ Alone(t) /\ GetInstanceCreate(t)
        \/ Alone(t) /\ GetInstanceReturn(t)
        \/ Alone(t) /\ LoadModelsTest(t)
        \/ Alone(t) /\ LoadDetectionModel(t)
        \/ Alone(t) /\ LoadCaptionModel(t)
        \/ Alone(t) /\ RunDetection(t)

SpecSequential == InitThreads /\ [][NextSequential]_vars

(* --------------------------- the task service ------------------------- *)

\* parent_task_id of a root task: None; ObjectIds count from 1
NoTask == 0
\* TaskDocument.get finds nothing: None
NoDocument == <<>>
\* a parent_task_id that is None in a request
NoString == <<>>

\* every request is served for settings.default_user_id
default_user_id == "hardcoded-user-123"

\* the id strings of requests: the 24 hex digits of an ObjectId, written
\* with the letters a-f in lower case, as the server prints them, or in
\* upper case
HexString(oid, case) == [oid |-> oid, case |-> case]

\* ObjectId(string) reads the hex digits in either case
PydanticObjectId(string) == string.oid

\* str(ObjectId) prints lower-case hex digits
StrObjectId(oid) == HexString(oid, "lower")

\* the id strings a client can send once n tasks have been created
IdStrings(n) == {HexString(oid, case) : oid \in 1..n, case \in {"lower", "upper"}}

TaskDocument(parent_task_id, owner_user_id) ==
    [parent_task_id |-> parent_task_id, owner_user_id |-> owner_user_id]

\* TaskDocument.get(oid)
TaskDocument_get(db, oid) ==
    IF oid \in 1..Len(db) THEN db[oid] ELSE NoDocument

\* TaskDocument.find({"parent_task_id": oid})
TaskDocument_find(db, oid) ==
    {c \in 1..Len(db) : db[c] # NoDocument /\ db[c].parent_task_id = oid}

RaiseError(error) == [kind |-> "raise", error |-> error]

\* the collection afterwards and the outcome: the id of the new task
create_task(db, user_id, parent_task_id) ==
    IF /\ parent_task_id # NoString
       /\ \/ TaskDocument_get(db, PydanticObjectId(parent_task_id)) = NoDocument
          \/ TaskDocument_get(db, PydanticObjectId(parent_task_id)).owner_user_id
                # user_id
    THEN [db |-> db, outcome |-> RaiseError("ValidationError")]
    ELSE [db |-> Append(db, TaskDocument(
                     IF parent_task_id # NoString
                     THEN PydanticObjectId(parent_task_id) ELSE NoTask,
                     user_id)),
          outcome |-> Value(Len(db) + 1)]

\* the task is found and belongs to the user
get_task(db, user_id, task_id) ==
    /\ TaskDocument_get(db, PydanticObjectId(task_id)) # NoDocument
    /\ TaskDocument_get(db, PydanticObjectId(task_id)).owner_user_id = user_id

\* the while loop of _would_create_cycle: current and child_id are strings
RECURSIVE _would_create_cycle_loop(_, _, _, _)
_would_create_cycle_loop(db, current, child_id, visited) ==
    IF current = NoString THEN FALSE
    ELSE IF current = child_id THEN TRUE
    ELSE IF current \in visited THEN FALSE
    ELSE LET parent_task == TaskDocument_get(db, PydanticObjectId(current))
         IN  _would_create_cycle_loop(
                 db,
                 IF parent_task # NoDocument /\ parent_task.parent_task_id # NoTask
                 THEN StrObjectId(parent_task.parent_task_id) ELSE NoString,
                 child_id, visited \cup {current})

_would_create_cycle(db, parent_id, child_id) ==
    _would_create_cycle_loop(db, parent_id, child_id, {})

\* update_data is what the request sets: a parent_task_id string, NoString
\* for null, or other fields only
update_task(db, user_id, task_id, update_data) ==
    IF ~get_task(db, user_id, task_id)
    THEN [db |-> db, outcome |-> RaiseError("NotFoundError")]
    ELSE IF "parent_task_id" \notin DOMAIN update_data
    THEN [db |-> db, outcome |-> Value(PydanticObjectId(task_id))]
    ELSE IF update_data.parent_task_id = NoString
    THEN [db |-> [db EXCEPT ![PydanticObjectId(task_id)].parent_task_id = NoTask],
          outcome |-> Value(PydanticObjectId(task_id))]
    ELSE IF ~get_task(db, user_id, update_data.parent_task_id)
    THEN [db |-> db, outcome |-> RaiseError("ValidationError")]
    ELSE IF _would_create_cycle(db, update_data.parent_task_id, task_id)
    THEN [db |-> db, outcome |-> RaiseError("ValidationError")]
    ELSE [db |-> [db EXCEPT ![PydanticObjectId(task_id)].parent_task_id =
                               PydanticObjectId(update_data.parent_task_id)],
          outcome |-> Value(PydanticObjectId(task_id))]

\* the tasks _delete_subtasks_recursive reaches from the tasks in found
RECURSIVE Subtasks(_, _)
Subtasks(db, found) ==
    LET more == found \cup UNION {TaskDocument_find(db, oid) : oid \in found}
    IN  IF more = found THEN found ELSE Subtasks(db, more)

\* the recursion comes back to a task it is already deleting the subtasks of
RecursesForever(db, oid) ==
    \E c \in Subtasks(db, {oid}) : c \in Subtasks(db, TaskDocument_find(db, c))

\* the subtasks keep the id of the deleted task as their parent
delete_task_keeps_links(db, user_id, task_id, cascade) ==
    IF ~get_task(db, user_id, task_id)
    THEN [db |-> db, outcome |-> RaiseError("NotFoundError")]
    ELSE IF cascade
    THEN IF RecursesForever(db, PydanticObjectId(task_id))
         THEN [db |-> db, outcome |-> RaiseError("RecursionError")]
         ELSE [db |-> [oid \in 1..Len(db) |->
                         IF oid \in Subtasks(db, {PydanticObjectId(task_id)})
                         THEN NoDocument ELSE db[oid]],
               outcome |-> Value(TRUE)]
    ELSE [db |-> [oid \in 1..Len(db) |->
                    IF oid = PydanticObjectId(task_id) THEN NoDocument ELSE db[oid]],
          outcome |-> Value(TRUE)]

delete_task(db, user_id, task_id, cascade) ==
    IF ~get_task(db, user_id, task_id)
    THEN [db |-> db, outcome |-> RaiseError("NotFoundError")]
    ELSE IF cascade
    THEN IF RecursesForever(db, PydanticObjectId(task_id))
         THEN [db |-> db, outcome |-> RaiseError("RecursionError")]
         ELSE [db |-> [oid \in 1..Len(db) |->
                         IF oid \in Subtasks(db, {PydanticObjectId(task_id)})
                         THEN NoDocument ELSE db[oid]],
               outcome |-> Value(TRUE)]
    ELSE [db |-> [oid \in 1..Len(db) |->
                    IF oid = PydanticObjectId(task_id) THEN NoDocument
                    ELSE IF oid \in TaskDocument_find(db, PydanticObjectId(task_id))
                    THEN [db[oid] EXCEPT !.parent_task_id = NoTask]
                    ELSE db[oid]],
          outcome |-> Value(TRUE)]

\* a request of the task API is served: the collection, the request and its
\* outcome change, nothing else does
Served(request, r) ==
    /\ pc = "api"
    /\ tasks' = r.db
    /\ call' = request
    /\ ret' = r.outcome
    /\ UNCHANGED <<messages, current_screenshot, viewport, detected_elements, pc,
                   update, interrupts, resumed, ELEMENT_DETECTION_ENABLED,
                   weights_dir, _instance, detectors, loads, detector_calls,
                   sent_prompt, iteration_start, threads, datasources>>

CreateTask ==
    /\ Len(tasks) < MaxTasks
    /\ \E parent_task_id \in {NoString} \cup IdStrings(Len(tasks)) :
          Served([fn |-> "create_task", parent_task_id |-> parent_task_id],
                 create_task(tasks, default_user_id, parent_task_id))

UpdateTask ==
    \E task_id \in IdStrings(Len(tasks)),
       update_data \in {<<>>} \cup {[parent_task_id |-> p] :
                                      p \in {NoString} \cup IdStrings(Len(tasks))} :
        Served([fn |-> "update_task", task_id |-> task_id,
                update_data |-> update_data],
               update_task(tasks, default_user_id, task_id, update_data))

DeleteTask ==
    \E task_id \in IdStrings(Len(tasks)), cascade \in BOOLEAN :
        Served([fn |-> "delete_task", task_id |-> task_id, cascade |-> cascade],
               delete_task(tasks, default_user_id, task_id, cascade))

\* the collection is empty or holds a task of somebody else
InitTasks ==
    /\ AgentIdle
    /\ pc = "api"
    /\ weights_dir = AllWeights
    /\ _instance = NoInstance
    /\ detectors = <<>>
    /\ loads = 0
    /\ threads = <<>>
    /\ tasks \in {<<>>, <<TaskDocument(NoTask, "another-user")>>}
    /\ datasources = <<>>

NextTasks == CreateTask \/ UpdateTask \/ DeleteTask

SpecTasks == InitTasks /\ [][NextTasks]_vars

(* ------------------- update_task requests in flight ------------------- *)

\* the requests the event loop serves at the same time; each runs
\* update_task up to its next await and then lets another one run
Requests == 1..MaxRequests

\* collections that create_task calls of the user build: the parent of a
\* task is a task created before it, or none
CreatedCollections ==
    {db \in [1..MaxTasks -> {TaskDocument(p, default_user_id) : p \in 0..MaxTasks}] :
        \A oid \in 1..MaxTasks : db[oid].parent_task_id < oid}

InitRequests ==
    /\ AgentIdle
    /\ pc = "requests"
    /\ weights_dir = AllWeights
    /\ _instance = NoInstance
    /\ detectors = <<>>
    /\ loads = 0
    /\ tasks \in CreatedCollections
    /\ datasources = <<>>
    /\ threads = [r \in Requests |->
                    [pc |-> "idle", task_id |-> NoString,
                     parent_task_id |-> NoString, outcome |-> NoRet]]

\* request r moves on; the agent and the detector are not involved
RequestAt(r, at) ==
    /\ pc = "requests"
    /\ threads[r].pc = at
    /\ UNCHANGED <<messages, current_screenshot, viewport, detected_elements, pc,
                   update, interrupts, resumed, ELEMENT_DETECTION_ENABLED,
                   weights_dir, _instance, detectors, loads, detector_calls,
                   sent_prompt, iteration_start, call, ret, datasources>>

\* the request ends with an exception, nothing is saved
Rejected(r, error) ==
    /\ threads' = [threads EXCEPT ![r].pc = "done", ![r].outcome = RaiseError(error)]
    /\ UNCHANGED tasks

\* PATCH /tasks/{task_id} with a parent_task_id arrives, both ids written
\* as the server prints them
ReceiveUpdate(r) ==
    /\ RequestAt(r, "idle")
    /\ \E task \in 1..Len(tasks), parent \in 1..Len(tasks) :
          threads' = [threads EXCEPT ![r].pc = "get_task",
                                     ![r].task_id = StrObjectId(task),
                                     ![r].parent_task_id = StrObjectId(parent)]
    /\ UNCHANGED tasks

\* task = await self.get_task(task_id)
UpdateGetTask(r) ==
    /\ RequestAt(r, "get_task")
    /\ IF get_task(tasks, default_user_id, threads[r].task_id)
       THEN threads' = [threads EXCEPT ![r].pc = "get_parent"] /\ UNCHANGED tasks
       ELSE Rejected(r, "NotFoundError")

\* parent = await TaskDocument.get(PydanticObjectId(new_parent_id))
UpdateGetParent(r) ==
    /\ RequestAt(r, "get_parent")
    /\ IF get_task(tasks, default_user_id, threads[r].parent_task_id)
       THEN threads' = [threads EXCEPT ![r].pc = "check_cycle"] /\ UNCHANGED tasks
       ELSE Rejected(r, "ValidationError")

\* if await self._would_create_cycle(new_parent_id, task_id)
UpdateCheckCycle(r) ==
    /\ RequestAt(r, "check_cycle")
    /\ IF _would_create_cycle(tasks, threads[r].parent_task_id, threads[r].task_id)
       THEN Rejected(r, "ValidationError")
       ELSE threads' = [threads EXCEPT ![r].pc = "save"] /\ UNCHANGED tasks

\* setattr(task, "parent_task_id", ...); await task.save()
UpdateSave(r) ==
    /\ RequestAt(r, "save")
    /\ tasks' = [tasks EXCEPT ![PydanticObjectId(threads[r].task_id)].parent_task_id =
                                  PydanticObjectId(threads[r].parent_task_id)]
    /\ threads' = [threads EXCEPT
                      ![r].pc = "done",
                      ![r].outcome = Value(PydanticObjectId(threads[r].task_id))]

RequestStep(r) ==
    \/ ReceiveUpdate(r)
    \/ UpdateGetTask(r)
    \/ UpdateGetParent(r)
    \/ UpdateCheckCycle(r)
    \/ UpdateSave(r)

NextRequests == \E r \in Requests : RequestStep(r)

SpecRequests == InitRequests /\ [][NextRequests]_vars

(* ------------------------ the data source service -------------------- *)

\* DataSourceType.OAUTH and DataSourceType.BROWSER_AGENT
OAUTH == "oauth"
BROWSER_AGENT == "browser_agent"

\* `not value` for an optional string: None and the empty string
Falsy(value) == value \in {None, ""}

\* the bodies of POST /datasources: model_dump() of a DataSourceCreate,
\* every optional field present with None as its default
DataSourceCreate ==
    [source_type : {OAUTH, BROWSER_AGENT},
     oauth_provider : {None, "google"},
     target_url : {None, "", "https://example.com"},
     instruction : {None, "collect"}]

\* the bodies of PATCH /datasources/{id}: model_dump(exclude_unset=True) of
\* a DataSourceUpdate, which has fields for target_url and instruction and
\* none for source_type or oauth_provider
DataSourceUpdate ==
    {t @@ i : t \in {<<>>} \cup {[target_url |-> v] :
                                    v \in {None, "", "https://example.com"}},
              i \in {<<>>} \cup {[instruction |-> v] : v \in {None, "collect"}}}

\* TRUE when no ValidationError is raised; on an update source_type is
\* data.get("source_type")
_validate_datasource_fields(data, is_update) ==
    IF Get(data, "source_type", None) = OAUTH
    THEN /\ (is_update \/ ~Falsy(Get(data, "oauth_provider", None)))
         /\ Falsy(Get(data, "target_url", None))
         /\ Falsy(Get(data, "instruction", None))
    ELSE IF Get(data, "source_type", None) = BROWSER_AGENT
    THEN /\ (is_update \/ (/\ ~Falsy(Get(data, "target_url", None))
                            /\ ~Falsy(Get(data, "instruction", None))))
         /\ Falsy(Get(data, "oauth_provider", None))
    ELSE TRUE

\* the collection afterwards and the outcome: the id of the new document
create_datasource(db, user_id, schema) ==
    IF ~_validate_datasource_fields(schema, FALSE)
    THEN [db |-> db, outcome |-> RaiseError("ValidationError")]
    ELSE [db |-> Append(db, [source_type    |-> schema.source_type,
                             oauth_provider |-> schema.oauth_provider,
                             target_url     |-> schema.target_url,
                             instruction    |-> schema.instruction,
                             owner_user_id  |-> user_id]),
          outcome |-> Value(Len(db) + 1)]

\* the document is found and belongs to the user
get_datasource(db, user_id, datasource_id) ==
    /\ PydanticObjectId(datasource_id) \in 1..Len(db)
    /\ db[PydanticObjectId(datasource_id)].owner_user_id = user_id

update_datasource(db, user_id, datasource_id, update_data) ==
    IF ~get_datasource(db, user_id, datasource_id)
    THEN [db |-> db, outcome |-> RaiseError("NotFoundError")]
    ELSE IF update_data # <<>> /\ ~_validate_datasource_fields(update_data, TRUE)
    THEN [db |-> db, outcome |-> RaiseError("ValidationError")]
    ELSE [db |-> [db EXCEPT ![PydanticObjectId(datasource_id)] = update_data @@ @],
          outcome |-> Value(PydanticObjectId(datasource_id))]

\* a request of the data source API is served
ServedDataSource(request, r) ==
    /\ pc = "datasources"
    /\ datasources' = r.db
    /\ call' = request
    /\ ret' = r.outcome
    /\ UNCHANGED <<messages, current_screenshot, viewport, detected_elements, pc,
                   update, interrupts, resumed, ELEMENT_DETECTION_ENABLED,
                   weights_dir, _instance, detectors, loads, detector_calls,
                   sent_prompt, iteration_start, threads, tasks>>

CreateDataSource ==
    /\ Len(datasources) < MaxDataSources
    /\ \E schema \in DataSourceCreate :
          ServedDataSource([fn |-> "create_datasource", schema |-> schema],
                           create_datasource(datasources, default_user_id, schema))

UpdateDataSource ==
    \E datasource_id \in IdStrings(Len(datasources) + 1),
       update_data \in DataSourceUpdate :
        ServedDataSource([fn |-> "update_datasource",
                          datasource_id |-> datasource_id,
                          update_data |-> update_data],
                         update_datasource(datasources, default_user_id,
                                           datasource_id, update_data))

InitDataSources ==
    /\ AgentIdle
    /\ pc = "datasources"
    /\ weights_dir = AllWeights
    /\ _instance = NoInstance
    /\ detectors = <<>>
    /\ loads = 0
    /\ threads = <<>>
    /\ tasks = <<>>
    /\ datasources = <<>>

NextDataSources == CreateDataSource \/ UpdateDataSource

SpecDataSources == InitDataSources /\ [][NextDataSources]_vars

(* ------------------------------ helpers ------------------------------- *)

LastMessage == messages[Len(messages)]

\* the last message is a proposal that carries tool requests
HasPendingCalls ==
    /\ Len(messages) > 0
    /\ LastMessage.type = "ai"
    /\ Len(LastMessage.tool_calls) > 0

IsLocalName(name) == name = "load_skill" \/ name = "collect_data"

\* the last step was a resume of a suspended remote tool call
JustResumed == resumed # NoResume

(* ------------------------------- C1 ----------------------------------- *)

\* C1: whenever a Decision Step is about to run, detected_elements is empty
\* or is what detection yields for the screenshot (and viewport) the state
\* holds at that moment; elements of an earlier screenshot never reach it.
C1_DecisionSeesCurrentElements ==
    pc = "model_node" =>
        \/ detected_elements = <<>>
        \/ /\ current_screenshot \in {"A", "B"}
           /\ viewport # NoViewport
           /\ detected_elements =
                 _generate_captions(_detect_ui_elements(current_screenshot),
                                    viewport.width, viewport.height).value

\* a Decision Step sees the elements of screenshot B after a resume has
\* replaced screenshot A
C1_Witness ==
    /\ pc = "model_node"
    /\ messages[1].image = "A"
    /\ current_screenshot = "B"
    /\ Len(interrupts) >= 1
    /\ detected_elements # <<>>

(* ------------------------------- C2 ----------------------------------- *)

\* C2: a resume whose outcome carries a screenshot returns one update that
\* sets current_screenshot to it and detected_elements to the empty list
\* (and viewport to the outcome's viewport when present), so the state
\* after the resume holds the new screenshot and no elements.
C2_ResumeStoresScreenshotAndClears ==
    (JustResumed /\ "screenshot" \in DOMAIN resumed) =>
        /\ "current_screenshot" \in DOMAIN update
        /\ update.current_screenshot = resumed.screenshot
        /\ "detected_elements" \in DOMAIN update
        /\ update.detected_elements = <<>>
        /\ current_screenshot = resumed.screenshot
        /\ detected_elements = <<>>
        /\ ("viewport" \in DOMAIN resumed =>
               /\ "viewport" \in DOMAIN update
               /\ update.viewport = resumed.viewport
               /\ viewport = resumed.viewport)

\* a resume carrying screenshot B and a viewport arrived while the state held
\* screenshot A, whose elements had been detected
C2_Witness ==
    /\ JustResumed
    /\ "screenshot" \in DOMAIN resumed /\ resumed.screenshot = "B"
    /\ "viewport" \in DOMAIN resumed
    /\ Len(messages) = 3
    /\ messages[1].image = "A"
    /\ viewport = VP_B
    /\ current_screenshot = "B"

(* ------------------------------- C3 ----------------------------------- *)

\* C3: an Execution Step acting on a tool request named load_skill or
\* collect_data does not suspend and emits no suspend payload; acting on any
\* other name (inside or outside the tool table) it suspends and emits
\* exactly one suspend payload.
C3_LocalNeverSuspendsRemoteAlways ==
    [][(pc = "tool_node" /\ HasPendingCalls) =>
          IF IsLocalName(LastMessage.tool_calls[1].name)
          THEN /\ pc' # "interrupted"
               /\ interrupts' = interrupts
          ELSE /\ pc' = "interrupted"
               /\ Len(interrupts') = Len(interrupts) + 1
               /\ SubSeq(interrupts', 1, Len(interrupts)) = interrupts
      ]_vars

\* a request outside the tool table suspended, and later a collect_data
\* request was answered without a further payload
C3_Witness ==
    /\ pc = "element_detection"
    /\ ~JustResumed
    /\ Len(interrupts) = 1
    /\ interrupts[1].action = "zoom"
    /\ Len(messages) = 5
    /\ messages[4].type = "ai"
    /\ messages[4].tool_calls[1].name = "collect_data"
    /\ messages[5].type = "tool"

(* ------------------------------- C4 ----------------------------------- *)

\* C4: the suspend payload of a remote tool request is exactly
\* {action: the request's name, args: the request's args, request_screenshot: true}.
C4_SuspendPayloadShape ==
    pc = "interrupted" =>
        /\ HasPendingCalls
        /\ Len(interrupts) > 0
        /\ interrupts[Len(interrupts)] =
              [action             |-> LastMessage.tool_calls[1].name,
               args               |-> LastMessage.tool_calls[1].args,
               request_screenshot |-> TRUE]

\* suspended on click(x=50, y=50)
C4_Witness ==
    /\ pc = "interrupted"
    /\ interrupts[Len(interrupts)] =
          [action |-> "click", args |-> [x |-> 50, y |-> 50],
           request_screenshot |-> TRUE]

(* ------------------------------- C5 ----------------------------------- *)

\* C5: every resume appends exactly one ToolResult: right after a resume the
\* last message is the ToolResult, it directly follows the proposal whose
\* first request was suspended, carries that request's id and the outcome's
\* result string, with or without a screenshot or viewport in the outcome.
C5_ResumeAppendsOneToolResult ==
    JustResumed =>
        /\ Len(messages) >= 2
        /\ messages[Len(messages) - 1].type = "ai"
        /\ Len(messages[Len(messages) - 1].tool_calls) > 0
        /\ LastMessage =
              [type         |-> "tool",
               content      |-> resumed.result,
               tool_call_id |-> messages[Len(messages) - 1].tool_calls[1].id]
        /\ "messages" \in DOMAIN update
        /\ Len(update.messages) = 1
        /\ interrupts[Len(interrupts)].action =
              messages[Len(messages) - 1].tool_calls[1].name

\* a resume that carries a screenshot and a viewport was applied to a
\* proposal with two requests
C5_Witness ==
    /\ JustResumed
    /\ DOMAIN resumed = {"result", "screenshot", "viewport"}
    /\ Len(messages[Len(messages) - 1].tool_calls) = 2
    /\ LastMessage.type = "tool"
    /\ LastMessage.content = "ok"

(* ------------------------------- C6 ----------------------------------- *)

\* the conversation ends with a proposal that has no tool requests
EndsWithFinalProposal ==
    /\ Len(messages) > 0
    /\ LastMessage.type = "ai"
    /\ LastMessage.tool_calls = <<>>

\* C6: once the Decision Step has returned a proposal with no tool requests
\* the loop has stopped (the graph is at END with that proposal, whose text is
\* the output, as the last message) and no step runs or changes anything
\* afterwards.
C6_FinalProposalStopsLoop ==
    /\ [](EndsWithFinalProposal => pc = END)
    /\ [](pc = END => EndsWithFinalProposal /\ LastMessage.content \in Texts)
    /\ [][pc = END => UNCHANGED vars]_vars

\* the loop stopped on the proposal "done" after one tool iteration
C6_Witness ==
    /\ pc = END
    /\ Len(messages) = 4
    /\ LastMessage.content = "done"
    /\ LastMessage.tool_calls = <<>>

(* ------------------------------- C7 ----------------------------------- *)

\* positions of the proposals with tool requests the Execution Step has
\* acted on and either answered or suspended
ActedOn ==
    {i \in 1..Len(messages) :
        /\ messages[i].type = "ai"
        /\ Len(messages[i].tool_calls) > 0
        /\ (i < Len(messages) \/ pc = "interrupted")}

RemoteActedOn ==
    {i \in ActedOn : ~IsLocalName(messages[i].tool_calls[1].name)}

\* C7: of the tool requests of a proposal only the one at index 0 is acted
\* on: every ToolResult directly follows a proposal and answers its first
\* request, every answered proposal has exactly that one ToolResult, and
\* the suspend payloads are exactly those of the first requests of the
\* remote proposals acted on; the other requests produce nothing.
C7_OnlyFirstRequestActedOn ==
    /\ \A i \in 1..Len(messages) :
          messages[i].type = "tool" =>
             /\ i > 1
             /\ messages[i - 1].type = "ai"
             /\ Len(messages[i - 1].tool_calls) > 0
             /\ messages[i].tool_call_id = messages[i - 1].tool_calls[1].id
    /\ \A i \in ActedOn :
          i < Len(messages) => messages[i + 1].type = "tool"
    /\ Len(interrupts) = Cardinality(RemoteActedOn)
    /\ \A k \in 1..Len(interrupts) :
          \E i \in RemoteActedOn :
             /\ interrupts[k].action = messages[i].tool_calls[1].name
             /\ interrupts[k].args = messages[i].tool_calls[1].args

\* a proposal with two requests, collect_data then click, was answered with
\* one ToolResult and no payload for the click
C7_Witness ==
    /\ pc = "element_detection"
    /\ Len(messages) = 3
    /\ Len(messages[2].tool_calls) = 2
    /\ messages[2].tool_calls[1].name = "collect_data"
    /\ messages[2].tool_calls[2].name = "click"
    /\ messages[3].type = "tool"
    /\ interrupts = <<>>

(* ------------------------------- C8 ----------------------------------- *)

RemoteAnswered ==
    {i \in 2..Len(messages) :
        /\ messages[i].type = "tool"
        /\ messages[i - 1].type = "ai"
        /\ ~IsLocalName(messages[i - 1].tool_calls[1].name)}

\* a suspend payload has been handed out and not been answered yet
Suspended == Len(interrupts) > Cardinality(RemoteAnswered)

\* C9: while a task is suspended on a remote tool call no node can run and
\* nothing changes; the only step out of the suspension is the resume, which
\* appends the ToolResult; there is no other transition (no timeout, no
\* error, no termination) out of it.
C9_SuspendedUntilResumed ==
    /\ [](Suspended <=> pc = "interrupted")
    /\ [](pc = "interrupted" =>
             ~ENABLED (ElementDetection \/ ModelNode \/ ModelNodeFails \/ ToolNode))
    /\ [][Suspended =>
             /\ resumed' \in ResumeValues
             /\ pc' = "element_detection"
             /\ Len(messages') = Len(messages) + 1
             /\ messages'[Len(messages')].type = "tool"
             /\ interrupts' = interrupts
         ]_vars

\* suspended on the second remote call of a task
C9_Witness ==
    /\ pc = "interrupted"
    /\ Len(interrupts) = 2
    /\ Cardinality(RemoteAnswered) = 1

(* ------------------------------- C10 ---------------------------------- *)

\* C10: run on an empty conversation, on a conversation whose last message
\* is not a proposal, or on a proposal without tool requests, the Execution
\* Step returns the empty update: nothing is appended, no payload is
\* emitted, no field changes, and it neither suspends nor fails.
C10_NoOpWithoutToolRequest ==
    [][(pc = "tool_node" /\ ~HasPendingCalls) =>
          /\ update' = <<>>
          /\ messages' = messages
          /\ current_screenshot' = current_screenshot
          /\ viewport' = viewport
          /\ detected_elements' = detected_elements
          /\ interrupts' = interrupts
          /\ pc' = "element_detection"
      ]_vars

\* the Execution Step has run on a proposal without tool requests
C10_Witness ==
    /\ pc = "element_detection"
    /\ update = <<>>
    /\ Len(messages) = 2
    /\ LastMessage.type = "ai"
    /\ LastMessage.tool_calls = <<>>
    /\ detected_elements # <<>>

(* ------------------------------- C11 ---------------------------------- *)

\* the state makes the Perception Step skip detection
SkipsDetection ==
    \/ ~ELEMENT_DETECTION_ENABLED
    \/ current_screenshot \in {None, ""}
    \/ viewport = NoViewport

\* C11: a Perception Step run while the disable flag is set, or the
\* screenshot is absent or empty, or the viewport is absent, returns an
\* empty detected_elements and makes no call of the detector (whose models
\* stay as they were); run in any other state it calls the detector once,
\* with the current screenshot and the current viewport's dimensions, and
\* returns exactly the list that call yields.
C11_PerceptionSkipsOrDetects ==
    [][pc = "element_detection" /\ pc' = "model_node" =>
          /\ DOMAIN update' = {"detected_elements"}
          /\ detected_elements' = update'.detected_elements
          /\ IF SkipsDetection
             THEN /\ update'.detected_elements = <<>>
                  /\ detector_calls' = <<>>
                  /\ _instance' = _instance
                  /\ detectors' = detectors
             ELSE /\ detector_calls' =
                        <<[screenshot_base64 |-> current_screenshot,
                           viewport_width    |-> viewport.width,
                           viewport_height   |-> viewport.height]>>
                  /\ update'.detected_elements =
                        detect_elements_from_screenshot(
                            current_screenshot, viewport.width, viewport.height)]_vars

\* with the flag off, a screenshot with elements and a viewport present, and
\* stale elements in the state, the step has returned the empty list and
\* left the loaded detector alone
C11_Witness ==
    /\ pc = "model_node"
    /\ ~ELEMENT_DETECTION_ENABLED
    /\ current_screenshot = "A"
    /\ viewport = VP_A
    /\ weights_dir = AllWeights
    /\ detectors = <<LoadedDetector>>
    /\ update = [detected_elements |-> <<>>]
    /\ detected_elements = <<>>
    /\ detector_calls = <<>>

(* ------------------------------- C12 ---------------------------------- *)

\* C12: detect_elements never raises, and returns the empty list when the
\* screenshot does not decode to an image (bad base64, the empty string,
\* bytes that are no image), when the models cannot be loaded, and when the
\* pipeline raises later on (the coordinate mapping on a zero dimension).
C12_DetectionNeverRaises ==
    (call.fn = "detect_elements" /\ pc = "returned") =>
        /\ ret.kind = "return"
        /\ (\/ ~Decodable(call.screenshot_base64)
            \/ (call.self._detection_model = None /\ weights_dir # AllWeights)
            \/ (/\ call.screenshot_base64 \in {"A", "B"}
                /\ (call.viewport_width = 0 \/ call.viewport_height = 0)))
           => ret.value = <<>>

\* the caption weights are missing: loading failed after the detection
\* model had been set, and the call on a good screenshot returned []
C12_Witness ==
    /\ call.fn = "detect_elements"
    /\ pc = "returned"
    /\ call.self = ElementDetector
    /\ weights_dir = {"icon_detect"}
    /\ call.screenshot_base64 = "A"
    /\ call.viewport_width = 1280
    /\ ret = Value(<<>>)
    /\ detectors[_instance]._detection_model = "YOLO"
    /\ detectors[_instance]._caption_model = None

(* ------------------------------- C13 ---------------------------------- *)

\* C13: for a viewport with w > 0 and h > 0, pixel (0, 0) maps to grid
\* (0, 0), pixel (w, h) to (100, 100), pixel (w/2, h/2) to (50, 50) when w
\* and h are even, and every pixel strictly inside the viewport maps to a
\* pair of integers in 0..100.
C13_CornersCentreInterior ==
    (call.fn = "_pixel_to_grid" /\ pc = "returned"
        /\ call.viewport_width > 0 /\ call.viewport_height > 0) =>
        LET w == call.viewport_width
            h == call.viewport_height
        IN  /\ ret.kind = "return"
            /\ (call.x = 0 /\ call.y = 0) => ret.value = [x |-> 0, y |-> 0]
            /\ (call.x = w /\ call.y = h) => ret.value = [x |-> 100, y |-> 100]
            /\ (w % 2 = 0 /\ h % 2 = 0 /\ 2 * call.x = w /\ 2 * call.y = h)
                  => ret.value = [x |-> 50, y |-> 50]
            /\ (0 < call.x /\ call.x < w /\ 0 < call.y /\ call.y < h)
                  => (ret.value.x \in 0..100 /\ ret.value.y \in 0..100)

\* the centre of a 100 x 50 viewport has been mapped to (50, 50)
C13_Witness ==
    /\ call.fn = "_pixel_to_grid"
    /\ pc = "returned"
    /\ call.viewport_width = 100 /\ call.viewport_height = 50
    /\ call.x = 50 /\ call.y = 25
    /\ ret = Value([x |-> 50, y |-> 50])

(* ------------------------------- C14 ---------------------------------- *)

\* C14: for a viewport with w > 0 and h > 0 the mapping of a pixel outside
\* it returns, per axis, 0 for a negative pixel and 100 for a pixel beyond
\* the dimension, and does not raise.
C14_OutOfRangeClamped ==
    (call.fn = "_pixel_to_grid" /\ pc = "returned"
        /\ call.viewport_width > 0 /\ call.viewport_height > 0) =>
        /\ ret.kind = "return"
        /\ call.x < 0 => ret.value.x = 0
        /\ call.y < 0 => ret.value.y = 0
        /\ call.x > call.viewport_width => ret.value.x = 100
        /\ call.y > call.viewport_height => ret.value.y = 100

\* a pixel left of and far below a 1280 x 800 viewport has been mapped to
\* (0, 100)
C14_Witness ==
    /\ call.fn = "_pixel_to_grid"
    /\ pc = "returned"
    /\ call.viewport_width = 1280 /\ call.viewport_height = 800
    /\ call.x = -1 /\ call.y = 1600
    /\ ret = Value([x |-> 0, y |-> 100])

(* ------------------------------- C15 ---------------------------------- *)

\* C15: for a viewport with w > 0 and h > 0 each axis of the mapping equals
\* round(100 * pixel / dimension), the nearest integer (a tie going to the
\* even one), clamped to 0..100.
C15_RoundedPerAxis ==
    (call.fn = "_pixel_to_grid" /\ pc = "returned"
        /\ call.viewport_width > 0 /\ call.viewport_height > 0) =>
        LET round(n, dim) ==
                LET a == IF n < 0 THEN -n ELSE n
                    q == (100 * a) \div dim
                    r == (100 * a) % dim
                    nearest == IF 2 * r > dim \/ (2 * r = dim /\ q % 2 = 1)
                               THEN q + 1 ELSE q
                IN  IF n < 0 THEN -nearest ELSE nearest
            clamp(v) == IF v < 0 THEN 0 ELSE IF v > 100 THEN 100 ELSE v
        IN  /\ ret.kind = "return"
            /\ ret.value.x = clamp(round(call.x, call.viewport_width))
            /\ ret.value.y = clamp(round(call.y, call.viewport_height))

(* ------------------------------- C16 ---------------------------------- *)

\* C16: when the Perception Step has called the detector with a viewport
\* dimension of 0 and the call got as far as the coordinate mapping (models
\* loaded, an image with elements), the task is in error: the step has not
\* completed with a normal result.
C16_ZeroViewportFailsFast ==
    (/\ detector_calls # <<>>
     /\ (detector_calls[1].viewport_width = 0 \/ detector_calls[1].viewport_height = 0)
     /\ detector_calls[1].screenshot_base64 \in {"A", "B"}
     /\ _instance # NoInstance
     /\ detectors[_instance] = LoadedDetector) =>
        pc = "error"

(* ------------------------------- C17 ---------------------------------- *)

\* the Execution Step is about to act on a load_skill request whose
\* skill_name names no file of the skills directory
UnknownSkillRequested ==
    /\ pc = "tool_node"
    /\ HasPendingCalls
    /\ LastMessage.tool_calls[1].name = "load_skill"
    /\ "skill_name" \in DOMAIN LastMessage.tool_calls[1].args
    /\ \A i \in 1..Len(list_skills) :
          list_skills[i] # LastMessage.tool_calls[1].args.skill_name

\* C17: an Execution Step acting on a load_skill request for a name that
\* matches no skill does not raise: it appends one ToolResult for the
\* request whose text names the requested skill and lists the available
\* skills in sorted order (linkedin-automation before whatsapp-web, though
\* the directory lists them the other way round), and the loop goes on to
\* the Perception Step.
C17_UnknownSkillListsSorted ==
    [][UnknownSkillRequested =>
          /\ pc' = "element_detection"
          /\ Len(messages') = Len(messages) + 1
          /\ SubSeq(messages', 1, Len(messages)) = messages
          /\ LET result == messages'[Len(messages')] IN
                /\ result.type = "tool"
                /\ result.tool_call_id = LastMessage.tool_calls[1].id
                /\ result.content[1] =
                      <<"Error: Skill '", LastMessage.tool_calls[1].args.skill_name,
                        "' not found.">>
                /\ result.content[3] =
                      <<"Available skills: ", LINKEDIN_AUTOMATION, ", ", WHATSAPP_WEB>>]_vars

\* the loop has reached the Decision Step with the error text for the
\* unknown skill gmail as the last message
C17_Witness ==
    /\ pc = "model_node"
    /\ Len(messages) = 3
    /\ messages[2].type = "ai"
    /\ messages[2].tool_calls[1].name = "load_skill"
    /\ messages[2].tool_calls[1].args = [skill_name |-> GMAIL]
    /\ messages[3].type = "tool"
    /\ messages[3].tool_call_id = messages[2].tool_calls[1].id
    /\ messages[3].content[3] =
          <<"Available skills: ", LINKEDIN_AUTOMATION, ", ", WHATSAPP_WEB>>

(* ------------------------------- C18 ---------------------------------- *)

\* C18: an Execution Step acting on a request whose name is in
\* SERVER_SIDE_TOOLS, whatever its args, does not end in an error: it
\* appends exactly one ToolResult carrying the request's id, and the text
\* for a local name without a handler is 'Unknown server-side tool: <name>'.
C18_LocalAlwaysAnswers ==
    [][(/\ pc = "tool_node"
        /\ HasPendingCalls
        /\ LastMessage.tool_calls[1].name \in SERVER_SIDE_TOOLS) =>
          /\ pc' # "error"
          /\ Len(messages') = Len(messages) + 1
          /\ SubSeq(messages', 1, Len(messages)) = messages
          /\ messages'[Len(messages')].type = "tool"
          /\ messages'[Len(messages')].tool_call_id = LastMessage.tool_calls[1].id
          /\ (LastMessage.tool_calls[1].name \notin {"load_skill", "collect_data"} =>
                 messages'[Len(messages')].content =
                     << <<"Unknown server-side tool: ",
                          LastMessage.tool_calls[1].name>> >>)]_vars

(* ------------------------------- C19 ---------------------------------- *)

\* C19: the element type of a caption is the first category, in the order
\* button, input, icon, search, link, image, one of whose keywords occurs
\* in the lower-cased caption, and text when no keyword occurs.
C19_FirstCategoryWins ==
    (call.fn = "_extract_element_type" /\ pc = "returned") =>
        LET categories ==
                <<[type |-> BUTTON, words |-> {BUTTON, BTN}],
                  [type |-> INPUT,  words |-> {INPUT, FIELD, TEXTBOX}],
                  [type |-> ICON,   words |-> {ICON, SYMBOL}],
                  [type |-> SEARCH, words |-> {SEARCH}],
                  [type |-> LINK,   words |-> {LINK, HYPERLINK}],
                  [type |-> IMAGE,  words |-> {IMAGE, IMG, PHOTO}]>>
            hits == {i \in 1..Len(categories) :
                        \E word \in categories[i].words :
                            in_(word, lower(call.caption))}
        IN  /\ ret.kind = "return"
            /\ ret.value = IF hits = {} THEN TEXT
                           ELSE categories[CHOOSE i \in hits :
                                              \A j \in hits : i <= j].type

\* 'Search input field' holds keywords of input and of search and has been
\* typed input
C19_Witness ==
    /\ call.fn = "_extract_element_type"
    /\ pc = "returned"
    /\ call.caption = <<"S", "e", "a", "r", "c", "h", " ", "i", "n", "p", "u", "t", " ", "f", "i", "e", "l", "d">>
    /\ ret = Value(INPUT)

(* ------------------------------- C20 ---------------------------------- *)

\* C20: the listing of an empty list is the empty string; the listing of n
\* > 0 elements is the header line followed by n lines, line i carrying the
\* index i (counted from 1) and the type, caption and grid centre of
\* element i.  The system message of the Decision Step is the base prompt
\* alone for an empty list, and the base prompt, an empty line and the
\* listing otherwise.
C20_ListingAndPrompt ==
    /\ (call.fn = "format_elements_for_prompt" /\ pc = "returned") =>
          LET n == Len(call.elements) IN
          /\ ret.kind = "return"
          /\ n = 0 => ret.value = EmptyStr
          /\ n > 0 =>
                /\ Len(ret.value) = n + 1
                /\ ret.value[1] = <<"Detected UI Elements:">>
                /\ \A i \in 1..n :
                      LET line == ret.value[i + 1]
                          elem == call.elements[i]
                      IN  /\ Len(line) = 11
                          /\ line[2] = <<DIGITS[i + 1]>>
                          /\ lower(line[4]) = lower(elem.element_type)
                          /\ line[6] = elem.caption
                          /\ line[8] = str(elem.grid_center.x)
                          /\ line[10] = str(elem.grid_center.y)
    /\ (call.fn = "system_message" /\ pc = "returned") =>
          LET n == Len(call.state.detected_elements) IN
          /\ ret.kind = "return"
          /\ n = 0 => ret.value.content = << <<"system.prompt.md">> >>
          /\ n > 0 =>
                /\ Len(ret.value.content) = n + 3
                /\ ret.value.content[1] = <<"system.prompt.md">>
                /\ ret.value.content[2] = <<>>
                /\ ret.value.content[3] = <<"Detected UI Elements:">>
                /\ \A i \in 1..n :
                      ret.value.content[i + 3][6] = call.state.detected_elements[i].caption

\* the listing of the Send button followed by the Search input has been
\* built: header, then line 1 for the button and line 2 for the input
C20_Witness ==
    /\ call.fn = "format_elements_for_prompt"
    /\ pc = "returned"
    /\ Len(call.elements) = 2
    /\ call.elements[1].element_type = BUTTON
    /\ call.elements[2].element_type = INPUT
    /\ Len(ret.value) = 3
    /\ ret.value[2] =
          <<"- [", <<"1">>, "] ", <<"B", "u", "t", "t", "o", "n">>, " \"", <<"S", "e", "n", "d">>, "\" at grid (",
            <<"9", "5">>, ", ", <<"9", "2">>, ")">>
    /\ ret.value[3][2] = <<"2">>
    /\ ret.value[3][4] = <<"I", "n", "p", "u", "t">>

(* ------------------------------- C21 ---------------------------------- *)

\* detectors on which a detection model has been set
HoldingModels ==
    {d \in DOMAIN detectors : detectors[d]._detection_model # None}

\* C21: whatever the interleaving of the threads' first calls, at most one
\* load of the detection model has been performed in the process and at
\* most one detector holds models.
C21_LoadedAtMostOnce ==
    /\ loads <= 1
    /\ Cardinality(HoldingModels) <= 1

(* ------------------------------- C22 ---------------------------------- *)

\* C22: with the calls made one after the other, every call that has
\* returned has returned the same reference, the one cls._instance holds,
\* and one detector has been created.
C22_SameInstance ==
    \A t \in Threads :
        threads[t].pc \in {"_load_models", "load_detection", "load_caption",
                           "detect", "done"} =>
            /\ threads[t].detector = _instance
            /\ _instance # NoInstance
            /\ Len(detectors) = 1
            /\ \A u \in Threads :
                  threads[u].detector \in {NoInstance, threads[t].detector}

\* two calls of get_instance have returned, both the one detector
C22_Witness ==
    /\ \A t \in Threads : threads[t].pc = "done" /\ threads[t].fn = "get_instance"
    /\ \A t \in Threads : threads[t].detector = 1
    /\ Len(detectors) = 1


(* ------------------------------- C23 ---------------------------------- *)

IsPrefix(a, b) == Len(a) <= Len(b) /\ SubSeq(b, 1, Len(a)) = a

\* C23: every step of the loop (Perception, Decision, Execution, suspend,
\* resume, a failing step) leaves the conversation it found as a prefix of
\* the conversation afterwards: no message is removed, replaced or moved.
C23_ConversationAppendOnly ==
    [][IsPrefix(messages, messages')]_vars

\* a run that went through two suspensions and resumes and ended with a
\* final proposal: six messages
C23_Witness ==
    /\ pc = END
    /\ Len(messages) = 6
    /\ Len(interrupts) = 2

(* ------------------------------- C24 ---------------------------------- *)

ToolCallIds(message) ==
    {message.tool_calls[i].id : i \in 1..Len(message.tool_calls)}

\* C24: the conversation starts with the user message and has no other;
\* a proposal with tool requests that has a successor is followed by a
\* ToolResult for one of its requests, a ToolResult that has a successor
\* is followed by a proposal, and a proposal without tool requests is last.
C24_StrictAlternation ==
    /\ Len(messages) >= 1
    /\ messages[1].type = "human"
    /\ \A i \in 2..Len(messages) : messages[i].type \in {"ai", "tool"}
    /\ \A i \in 1..(Len(messages) - 1) :
          /\ messages[i].type = "human" => messages[i + 1].type = "ai"
          /\ messages[i].type = "tool" => messages[i + 1].type = "ai"
          /\ messages[i].type = "ai" =>
                /\ Len(messages[i].tool_calls) > 0
                /\ messages[i + 1].type = "tool"
                /\ messages[i + 1].tool_call_id \in ToolCallIds(messages[i])

\* a proposal with two tool requests got its one ToolResult and the next
\* proposal followed
C24_Witness ==
    /\ Len(messages) >= 4
    /\ messages[2].type = "ai"
    /\ Len(messages[2].tool_calls) = 2
    /\ messages[3].type = "tool"
    /\ messages[4].type = "ai"

(* ------------------------------- C25 ---------------------------------- *)

\* C25: a Decision Step in which the LLM call fails ends the run in error
\* with the conversation, screenshot, viewport and detected elements that
\* the iteration began with.
C25_LLMFailureKeepsIterationStart ==
    [][(pc = "model_node" /\ pc' = "error") =>
          /\ messages' = iteration_start.messages
          /\ current_screenshot' = iteration_start.current_screenshot
          /\ viewport' = iteration_start.viewport
          /\ detected_elements' = iteration_start.detected_elements]_vars


(* ------------------------------- C26 ---------------------------------- *)

\* C26: every element detect_elements returns has a box with
\* x_min < x_max and y_min < y_max.
C26_BoxesHaveArea ==
    (call.fn = "detect_elements" /\ pc = "returned" /\ ret.kind = "return") =>
        \A i \in 1..Len(ret.value) :
            /\ ret.value[i].bbox.x_min < ret.value[i].bbox.x_max
            /\ ret.value[i].bbox.y_min < ret.value[i].bbox.y_max


(* ------------------------------- C27 ---------------------------------- *)

\* the schema named name has been applied to arguments
Validated(name) ==
    call.fn = "args_schema" /\ call.name = name /\ pc = "returned"

Accepted == ret.kind = "return"

\* C27: click and drag arguments are accepted exactly when every
\* coordinate is present and in 0..100, wait arguments exactly when ms is
\* present and in 0..10000, and scroll arguments with a direction and valid
\* x, y exactly when amount is omitted or >= 0; an omitted amount is 300.
C27_RangesEnforced ==
    /\ Validated("click") =>
          (Accepted <=> (/\ DOMAIN call.args = {"x", "y"}
                         /\ call.args.x \in 0..100
                         /\ call.args.y \in 0..100))
    /\ Validated("drag") =>
          (Accepted <=> (/\ DOMAIN call.args = {"start_x", "start_y", "end_x", "end_y"}
                         /\ \A f \in DOMAIN call.args : call.args[f] \in 0..100))
    /\ Validated("wait") =>
          (Accepted <=> (/\ DOMAIN call.args = {"ms"}
                         /\ call.args.ms \in 0..10000))
    /\ (/\ Validated("scroll")
        /\ "direction" \in DOMAIN call.args
        /\ ("x" \in DOMAIN call.args => call.args.x \in 0..100)) =>
          /\ (Accepted <=> ("amount" \in DOMAIN call.args => call.args.amount >= 0))
          /\ (Accepted /\ "amount" \notin DOMAIN call.args) => ret.value.amount = 300

\* a click on the upper limit of the grid has been accepted
C27_Witness ==
    /\ Validated("click")
    /\ call.args = [x |-> 100, y |-> 0]
    /\ ret = Value([x |-> 100, y |-> 0])

(* ------------------------------- C28 ---------------------------------- *)

\* C28: scroll arguments that have been accepted carry a direction out of
\* up, down, left, right.
C28_DirectionEnum ==
    (Validated("scroll") /\ Accepted) =>
        ret.value.direction \in {"up", "down", "left", "right"}


(* ------------------------------- C29 ---------------------------------- *)

\* the tasks from oid upwards along parent_task_id, oid excluded unless the
\* chain comes back to it
RECURSIVE Ancestors(_, _, _)
Ancestors(db, oid, seen) ==
    IF TaskDocument_get(db, oid) = NoDocument THEN seen
    ELSE IF db[oid].parent_task_id = NoTask THEN seen
    ELSE IF db[oid].parent_task_id \in seen THEN seen
    ELSE Ancestors(db, db[oid].parent_task_id, seen \cup {db[oid].parent_task_id})

\* C29: after any sequence of create_task, update_task and delete_task
\* calls no stored task is its own ancestor along parent_task_id.
C29_ParentRelationAcyclic ==
    \A oid \in 1..Len(tasks) :
        tasks[oid] # NoDocument => oid \notin Ancestors(tasks, oid, {})

(* ------------------------------- C30 ---------------------------------- *)

\* C30: a delete_task without cascade that succeeds removes the task
\* named, sets parent_task_id to None on the tasks whose parent it was and
\* leaves every other task and every other parent link as it was.
C30_DeleteOrphansDirectChildren ==
    [][(/\ call'.fn = "delete_task"
        /\ ~call'.cascade
        /\ ret'.kind = "return") =>
          /\ Len(tasks') = Len(tasks)
          /\ \A oid \in 1..Len(tasks) :
                tasks'[oid] =
                    IF oid = PydanticObjectId(call'.task_id) THEN NoDocument
                    ELSE IF /\ tasks[oid] # NoDocument
                            /\ tasks[oid].parent_task_id = PydanticObjectId(call'.task_id)
                    THEN TaskDocument(NoTask, tasks[oid].owner_user_id)
                    ELSE tasks[oid]]_vars

\* task 1 with child 2 and grandchild 3 has been deleted without cascade:
\* the child is a root now and the grandchild still hangs under the child
C30_Witness ==
    /\ call.fn = "delete_task"
    /\ ~call.cascade
    /\ ret = Value(TRUE)
    /\ tasks = <<NoDocument, TaskDocument(NoTask, default_user_id),
                 TaskDocument(2, default_user_id)>>

(* ------------------------------- C31 ---------------------------------- *)

\* the task named and the tasks below it at any depth
Subtree(db, root) ==
    {oid \in 1..Len(db) :
        db[oid] # NoDocument /\ (oid = root \/ root \in Ancestors(db, oid, {}))}

\* C31: delete_task with cascade on a task of the user removes the task and
\* every task below it at any depth and no other task, and no task that
\* remains has a removed task as its parent.
C31_CascadeRemovesSubtree ==
    [][(/\ call'.fn = "delete_task"
        /\ call'.cascade
        /\ get_task(tasks, default_user_id, call'.task_id)) =>
          /\ Len(tasks') = Len(tasks)
          /\ \A oid \in 1..Len(tasks) :
                tasks'[oid] =
                    IF oid \in Subtree(tasks, PydanticObjectId(call'.task_id))
                    THEN NoDocument ELSE tasks[oid]
          /\ \A oid \in 1..Len(tasks') :
                (tasks'[oid] # NoDocument /\ tasks'[oid].parent_task_id # NoTask)
                    => tasks'[tasks'[oid].parent_task_id] # NoDocument]_vars

(* ------------------------------- C32 ---------------------------------- *)

\* the resume value of the step carries the field
Carries(resume, field) == resume # NoResume /\ field \in DOMAIN resume

\* C32: a step of tool_node changes current_screenshot or detected_elements
\* only if it is a resume whose value carries a screenshot, and changes
\* viewport only if it is a resume whose value carries a viewport; local
\* tools and resumes without these fields leave the three fields as they
\* were.
C32_ExecutionFrame ==
    [][(pc \in {"tool_node", "interrupted"}) =>
          ( /\ (current_screenshot' # current_screenshot
                   => Carries(resumed', "screenshot"))
            /\ (detected_elements' # detected_elements
                   => Carries(resumed', "screenshot"))
            /\ (viewport' # viewport => Carries(resumed', "viewport")) )]_vars

\* a resume that carried a viewport and no screenshot has been merged: the
\* viewport is the new one, screenshot and elements are those of before
C32_Witness ==
    /\ resumed = [result |-> "ok", viewport |-> VP_B]
    /\ viewport = VP_B
    /\ current_screenshot = "A"
    /\ detected_elements # <<>>
    /\ Len(interrupts) = 1

(* ------------------------------- C33 ---------------------------------- *)

\* C33: element_detection_node returns an update with detected_elements
\* only, and model_node one with exactly one message, the response of the
\* model as it came, and no other field; neither changes another field of
\* the state, and no system message enters the conversation.
C33_PerceptionDecisionFrame ==
    [][( /\ (pc = "element_detection" =>
                /\ DOMAIN update' = {"detected_elements"}
                /\ messages' = messages
                /\ current_screenshot' = current_screenshot
                /\ viewport' = viewport)
         /\ ((pc = "model_node" /\ pc' # "error") =>
                /\ DOMAIN update' = {"messages"}
                /\ Len(update'.messages) = 1
                /\ update'.messages[1] \in Responses(messages)
                /\ messages' = Append(messages, update'.messages[1])
                /\ current_screenshot' = current_screenshot
                /\ viewport' = viewport
                /\ detected_elements' = detected_elements
                /\ \A i \in 1..Len(messages') : messages'[i].type # "system") )]_vars

\* a Decision Step has run on a state with detected elements, so the prompt
\* it sent held the element listing, and the conversation grew by the
\* proposal alone
C33_Witness ==
    /\ pc = "tool_node"
    /\ detected_elements # <<>>
    /\ sent_prompt = system_message(AgentState).content
    /\ DOMAIN update = {"messages"}
    /\ Len(messages) = 2
    /\ messages[2] = update.messages[1]

(* ------------------------------- C34 ---------------------------------- *)

\* C34: when tool_node suspends, nothing of its update has been merged:
\* the conversation, the screenshot, the viewport and the detected elements
\* are those the Decision Step left, and the last message is the proposal
\* whose first tool request is the remote call that is pending.
C34_SuspensionIsCheckpoint ==
    [][(pc' = "interrupted") =>
          ( /\ messages' = messages
            /\ current_screenshot' = current_screenshot
            /\ viewport' = viewport
            /\ detected_elements' = detected_elements
            /\ update' = <<>>
            /\ messages'[Len(messages')].type = "ai"
            /\ messages'[Len(messages')].tool_calls # <<>>
            /\ messages'[Len(messages')].tool_calls[1].name \notin SERVER_SIDE_TOOLS
            /\ interrupts'[Len(interrupts')] =
                  BrowserToolCall(messages'[Len(messages')].tool_calls[1].name,
                                  messages'[Len(messages')].tool_calls[1].args) )]_vars

\* the run is suspended for the second time, with elements detected on the
\* screenshot the first resume brought
C34_Witness ==
    /\ pc = "interrupted"
    /\ Len(interrupts) = 2
    /\ detected_elements # <<>>
    /\ messages[Len(messages)].type = "ai"

(* ------------------------------- C35 ---------------------------------- *)

\* C35: whenever model_node is about to run, every tool request of every
\* proposal in the conversation has a ToolResult with its id in the
\* conversation.
C35_NoUnansweredRequest ==
    pc = "model_node" =>
        \A i \in 1..Len(messages) :
            messages[i].type = "ai" =>
                \A k \in 1..Len(messages[i].tool_calls) :
                    \E j \in 1..Len(messages) :
                        /\ messages[j].type = "tool"
                        /\ messages[j].tool_call_id = messages[i].tool_calls[k].id

(* ------------------------------- C36 ---------------------------------- *)

\* C36: when _load_models has raised in a call of detect_elements, the
\* detector holds no model afterwards, so that the next call loads again.
C36_FailedLoadLeavesUnloaded ==
    (/\ call.fn = "detect_elements"
     /\ pc = "returned"
     /\ _load_models(call.self).kind = "raise") =>
        /\ detectors[_instance]._detection_model = None
        /\ detectors[_instance]._caption_model = None
        /\ detectors[_instance]._caption_processor = None

(* ------------------------------- C37 ---------------------------------- *)

\* C37: while update_task requests run at the same time and take turns at
\* their awaits, no stored task becomes its own ancestor.
C37_AcyclicUnderInterleaving ==
    pc = "requests" =>
        \A oid \in 1..Len(tasks) : oid \notin Ancestors(tasks, oid, {})

(* ------------------------------- C38 ---------------------------------- *)

\* C38: after any sequence of create_datasource and update_datasource calls
\* every stored OAuth data source has an oauth_provider and neither
\* target_url nor instruction, and every stored Browser Agent data source
\* has a non-empty target_url and instruction and no oauth_provider.
C38_StoredFieldsMatchType ==
    \A i \in 1..Len(datasources) :
        /\ datasources[i].source_type = OAUTH =>
              /\ ~Falsy(datasources[i].oauth_provider)
              /\ Falsy(datasources[i].target_url)
              /\ Falsy(datasources[i].instruction)
        /\ datasources[i].source_type = BROWSER_AGENT =>
              /\ ~Falsy(datasources[i].target_url)
              /\ ~Falsy(datasources[i].instruction)
              /\ Falsy(datasources[i].oauth_provider)


=============================================================================
